---- MODULE Spec2Model ----
(***************************************************************************)
(* Smart Trader: decision engine (trading_logic.py) and the poll loop with *)
(* its position lifecycle (main.py).                                       *)
(*                                                                         *)
(* Number representation (the code uses Python floats):                    *)
(*   - signal values (aggregate_s, trend, breakout, thresholds, buffer,    *)
(*     confirm bar, volatility ratio, adaptation slope and clamp, whale    *)
(*     bias) are integers in thousandths (1000 = 1.0);                     *)
(*   - regime_scale values are integers in tenths (13 = 1.3);              *)
(*   - prices, ATR, quantities, balance and equity are integers;           *)
(*   - stop prices are integers in hundredths of a price unit (StopScale), *)
(*     so that the 1% fallback stop of an integer price is exact;          *)
(*   - comparisons of quotients are cross-multiplied, so every comparison  *)
(*     is exact; the only rounding is the floor in the quantity division.  *)
(* Optional values: NoStop for a stop of None, NoVr for a vol_ratio of     *)
(* None, NoPosition / NoContext / NoBehavior for an absent object.         *)
(***************************************************************************)
EXTENDS Integers, Sequences, FiniteSets, TLC

VARIABLES
    account,          \* main.py:229  Account(equity, balance, position)
    signal_buffer,    \* main.py:237  deque(maxlen=5) of decided actions
    events,           \* trade events handed to _log_trade_event, in order
    iteration,        \* main.py:888  loop counter of main()
    trade_seq,        \* number of trade ids issued by new_trade_id()
    cycle,            \* what the last analyze_once call did (observation)
    d_in,             \* decide harness: the arguments of one decide call
    d_out,            \* decide harness: the result of that call
    gw,               \* market_providers.py: the last MarketDataGateway call
    req,              \* wallex_client.py: one WallexClient._request call
    rl,               \* wallex_client.py: one RateLimiter, its callers, the clock
    net,              \* the outbound HTTP requests of the poll loop, in order
    sz,               \* one position_size_by_risk call: arguments and result
    dedupe,           \* main.py:233  last_db_fingerprint and the rows written
    mainloop,         \* main.py:888-895  the while loop of main()
    inj,              \* main.py:544-562  the behavior block of one cycle
    persist           \* the persistence and notification calls of one cycle

vars ==
    <<account, signal_buffer, events, iteration, trade_seq, cycle, d_in, d_out,
      gw, req, rl, net, sz, dedupe, mainloop, inj, persist>>

loopVars == <<account, signal_buffer, events, iteration, trade_seq, cycle>>

decideVars == <<d_in, d_out>>

ioVars == <<gw, req, rl, net>>

auxVars == <<sz, dedupe, mainloop, inj, persist>>

-----------------------------------------------------------------------------
(* Bounds of the model *)

MaxIter == 6

MaxTrades == 2

MaxRetries == 3

NumCallers == 2

MaxWaits == 2

MaxClock == 8

MaxCycles == 2

MaxLogCycles == 3

MaxLoopIter == 6

-----------------------------------------------------------------------------
(* Scales and sentinels *)

StopScale == 100

NoStop == -1

NoVr == -1

PosInf == 2000000000

NegInf == -2000000000

NaN == 2000000001

\* trading_logic.py:115,118  math.isfinite(x)
IsFinite(x) == x \notin {PosInf, NegInf, NaN}

\* trading_logic.py:114-115  _is_finite_positive
IsFinitePositive(x) == IsFinite(x) /\ x > 0

Abs(x) == IF x < 0 THEN -x ELSE x

Max2(a, b) == IF a >= b THEN a ELSE b

Min2(a, b) == IF a <= b THEN a ELSE b

\* trading_logic.py:13  _clamp(x, lo, hi) = max(lo, min(hi, x))
Clamp(x, lo, hi) == Max2(lo, Min2(hi, x))

-----------------------------------------------------------------------------
(* Objects *)

NoPosition ==
    [side |-> "NONE", qty |-> 0, entry_price |-> 0, stop_price |-> NoStop,
     trade_id |-> 0, breakeven_armed |-> FALSE]

\* trading_logic.py:82  Position(side, qty, entry_price, stop_price, trade_id)
Position(side, qty, entry, stop, tid) ==
    [side |-> side, qty |-> qty, entry_price |-> entry, stop_price |-> stop,
     trade_id |-> tid, breakeven_armed |-> FALSE]

NoBehavior ==
    [present |-> FALSE, supply_overcoming_demand |-> FALSE,
     vsa_signal |-> "", whale_bias |-> 0]

Behavior(sod, vsa, wb) ==
    [present |-> TRUE, supply_overcoming_demand |-> sod,
     vsa_signal |-> vsa, whale_bias |-> wb]

\* trading_logic.py:20  DecisionContext, the fields decide() reads
Context(agg, trend, bo, adx, atr, price, regime, vr, beh) ==
    [present |-> TRUE, aggregate_s |-> agg, trend |-> trend, breakout |-> bo,
     adx |-> adx, atr |-> atr, price |-> price, regime |-> regime,
     vol_ratio |-> vr, behavior_details |-> beh]

NoContext ==
    [present |-> FALSE, aggregate_s |-> 0, trend |-> 0, breakout |-> 0,
     adx |-> 0, atr |-> 0, price |-> 0, regime |-> "NEUTRAL",
     vol_ratio |-> NoVr, behavior_details |-> NoBehavior]

\* config.py:29-64  cfg.STRATEGY as passed to StrategyParams (main.py:208-227)
DefaultParams ==
    [s_buy |-> 180, s_sell |-> 180, min_adx_for_trend |-> 18,
     regime_scale |-> [LOW |-> 7, NEUTRAL |-> 10, HIGH |-> 13],
     atr_stop_mult |-> 2, require_mtf_agreement |-> TRUE,
     decision_buffer |-> 0, mtf_confirm_bar |-> 180,
     min_vr_trade |-> 880, vr_adapt_k |-> 250, vr_adapt_clamp |-> 80,
     impulse_only_high |-> TRUE]

-----------------------------------------------------------------------------
(* trading_logic.py: SignalEngine *)

\* trading_logic.py:308  veto_bar, in millionths
VetoBar(p) ==
    Max2(Max2(p.decision_buffer * 2000, p.mtf_confirm_bar * 350), 50000)

MtfConfirmPass_rejectMissing(p, dc, dcc) ==
    IF ~p.require_mtf_agreement THEN TRUE
    ELSE IF ~dcc.present THEN FALSE
    ELSE IF dc.aggregate_s > 0 /\ dcc.aggregate_s * 1000 < -VetoBar(p) THEN FALSE
    ELSE IF dc.aggregate_s < 0 /\ dcc.aggregate_s * 1000 > VetoBar(p) THEN FALSE
    ELSE TRUE

\* trading_logic.py:282-323  _mtf_confirm_pass (the boolean it returns)
MtfConfirmPass(p, dc, dcc) ==
    IF ~p.require_mtf_agreement THEN TRUE
    ELSE IF ~dcc.present THEN TRUE
    ELSE IF dc.aggregate_s > 0 /\ dcc.aggregate_s * 1000 < -VetoBar(p) THEN FALSE
    ELSE IF dc.aggregate_s < 0 /\ dcc.aggregate_s * 1000 > VetoBar(p) THEN FALSE
    ELSE TRUE

BuildStop_sameSign(side, entry, atr, atr_mult) ==
    IF ~(entry > 0) THEN NoStop
    ELSE IF atr <= 0 \/ atr_mult <= 0 THEN NoStop
    ELSE Max2((entry - atr_mult * atr) * StopScale, 0)

\* trading_logic.py:327-340  _build_stop; the result is in hundredths.
\* Non-finite arguments do not occur over the integers.
BuildStop(side, entry, atr, atr_mult) ==
    IF ~(entry > 0) THEN NoStop
    ELSE IF atr <= 0 \/ atr_mult <= 0 THEN NoStop
    ELSE IF side = "LONG"
         THEN Max2((entry - atr_mult * atr) * StopScale, 0)
         ELSE Max2((entry + atr_mult * atr) * StopScale, 0)

\* trading_logic.py:367  is_bullish_trend
IsBullishTrend(trend_val, primary_s) == trend_val > 300 /\ primary_s > 0

\* trading_logic.py:382  is_bearish_trend
IsBearishTrend(trend_val, primary_s) == trend_val < -300 /\ primary_s < 0

\* trading_logic.py:368-372  is_bearish_whale
IsBearishWhale(b) ==
    \/ b.supply_overcoming_demand
    \/ b.vsa_signal = "DISTRIBUTION"
    \/ (b.vsa_signal = "ABSORPTION" /\ b.whale_bias < -300)

\* trading_logic.py:383-385  is_bullish_whale
IsBullishWhale(b) == b.vsa_signal = "ABSORPTION" /\ b.whale_bias > 300

\* trading_logic.py:344-394  _check_whale_gate (should_hold)
CheckWhaleGate(dc, trend_val, primary_s) ==
    /\ dc.behavior_details.present
    /\ \/ IsBullishTrend(trend_val, primary_s) /\ IsBearishWhale(dc.behavior_details)
       \/ IsBearishTrend(trend_val, primary_s) /\ IsBullishWhale(dc.behavior_details)

\* trading_logic.py:433-438  vr, with the fallback from the regime
VolRatioOf(dc) ==
    IF dc.vol_ratio # NoVr THEN dc.vol_ratio
    ELSE IF dc.regime = "LOW" THEN 850
    ELSE IF dc.regime = "HIGH" THEN 1150
    ELSE 1000

\* trading_logic.py:440-444  vr_shift, in millionths
VrShift(p, vr) ==
    Clamp((vr - 1000) * p.vr_adapt_k, -(p.vr_adapt_clamp * 1000), p.vr_adapt_clamp * 1000)

\* trading_logic.py:416  buf, max(buf, 0)
BufOf(p) == Max2(p.decision_buffer, 0)

\* trading_logic.py:424  regime_scale.get(regime, 1.0), in tenths
RegimeScaleOf(p, regime) == p.regime_scale[regime]

WantsLongTh_noScale(p, dc) ==
    dc.aggregate_s * 1000 + VrShift(p, VolRatioOf(dc)) >= (p.s_buy - BufOf(p)) * 1000

\* trading_logic.py:417,429,447,510  primary_s >= buy_th, where
\* buy_th = (s_buy - buf) / regime_scale - vr_shift (cross-multiplied)
WantsLongTh(p, dc) ==
    (dc.aggregate_s * 1000 + VrShift(p, VolRatioOf(dc))) * RegimeScaleOf(p, dc.regime)
        >= (p.s_buy - BufOf(p)) * 10000

\* trading_logic.py:418,430,448,511  primary_s <= -sell_th
WantsShortTh(p, dc) ==
    (VrShift(p, VolRatioOf(dc)) - dc.aggregate_s * 1000) * RegimeScaleOf(p, dc.regime)
        >= (p.s_sell - BufOf(p)) * 10000

\* trading_logic.py:463  low_vol_guard
LowVolGuard(p, dc) == VolRatioOf(dc) < p.min_vr_trade

\* trading_logic.py:486  has_strong_trend
HasStrongTrend(p, dc) == Abs(dc.trend) >= 450 /\ dc.adx >= p.min_adx_for_trend

\* trading_logic.py:487  has_strong_breakout
HasStrongBreakout(dc) == Abs(dc.breakout) >= 350

Hold == [action |-> "HOLD", has_pos |-> FALSE, side |-> "NONE", stop_price |-> NoStop, path |-> "HOLD"]

Signal(action, side, stop, path) ==
    [action |-> action, has_pos |-> TRUE, side |-> side, stop_price |-> stop, path |-> path]

Decide_fastIgnoresMtf(p, dc, dcc) ==
    LET mtf_ok == MtfConfirmPass(p, dc, dcc)
        entry  == Max2(dc.price, 0)
        atr    == Max2(dc.atr, 0)
    IN  IF CheckWhaleGate(dc, dc.trend, dc.aggregate_s) THEN [Hold EXCEPT !.path = "WHALE_GATE"]
        ELSE IF /\ dc.regime = "HIGH" /\ HasStrongTrend(p, dc) /\ HasStrongBreakout(dc)
                /\ ~LowVolGuard(p, dc) /\ entry > 0
        THEN LET side == IF dc.trend > 0 THEN "LONG" ELSE "SHORT"
             IN  Signal(IF side = "LONG" THEN "BUY" ELSE "SELL", side,
                        BuildStop(side, entry, atr, p.atr_stop_mult), "FAST")
        ELSE IF LowVolGuard(p, dc) THEN [Hold EXCEPT !.path = "VOL_GUARD"]
        ELSE IF WantsLongTh(p, dc) /\ mtf_ok
        THEN Signal("BUY", "LONG", BuildStop("LONG", entry, atr, p.atr_stop_mult), "THRESHOLD")
        ELSE IF WantsShortTh(p, dc) /\ mtf_ok
        THEN Signal("SELL", "SHORT", BuildStop("SHORT", entry, atr, p.atr_stop_mult), "THRESHOLD")
        ELSE Hold

Decide_whaleAfterFast(p, dc, dcc) ==
    LET mtf_ok == MtfConfirmPass(p, dc, dcc)
        entry  == Max2(dc.price, 0)
        atr    == Max2(dc.atr, 0)
    IN  IF /\ dc.regime = "HIGH" /\ HasStrongTrend(p, dc) /\ HasStrongBreakout(dc)
           /\ mtf_ok /\ ~LowVolGuard(p, dc) /\ entry > 0
        THEN LET side == IF dc.trend > 0 THEN "LONG" ELSE "SHORT"
             IN  Signal(IF side = "LONG" THEN "BUY" ELSE "SELL", side,
                        BuildStop(side, entry, atr, p.atr_stop_mult), "FAST")
        ELSE IF CheckWhaleGate(dc, dc.trend, dc.aggregate_s) THEN [Hold EXCEPT !.path = "WHALE_GATE"]
        ELSE IF LowVolGuard(p, dc) THEN [Hold EXCEPT !.path = "VOL_GUARD"]
        ELSE IF WantsLongTh(p, dc) /\ mtf_ok
        THEN Signal("BUY", "LONG", BuildStop("LONG", entry, atr, p.atr_stop_mult), "THRESHOLD")
        ELSE IF WantsShortTh(p, dc) /\ mtf_ok
        THEN Signal("SELL", "SHORT", BuildStop("SHORT", entry, atr, p.atr_stop_mult), "THRESHOLD")
        ELSE Hold

\* trading_logic.py:398-530  decide.  The match statement (490-528) is the
\* ordered case list: fast path, low-volatility guard, threshold path.
\* The field path records which branch returned (the reason it appends).
Decide(p, dc, dcc) ==
    LET mtf_ok == MtfConfirmPass(p, dc, dcc)
        entry  == Max2(dc.price, 0)
        atr    == Max2(dc.atr, 0)
    IN  IF CheckWhaleGate(dc, dc.trend, dc.aggregate_s) THEN [Hold EXCEPT !.path = "WHALE_GATE"]
        ELSE IF /\ dc.regime = "HIGH" /\ HasStrongTrend(p, dc) /\ HasStrongBreakout(dc)
                /\ mtf_ok /\ ~LowVolGuard(p, dc) /\ entry > 0
        THEN LET side == IF dc.trend > 0 THEN "LONG" ELSE "SHORT"
             IN  Signal(IF side = "LONG" THEN "BUY" ELSE "SELL", side,
                        BuildStop(side, entry, atr, p.atr_stop_mult), "FAST")
        ELSE IF LowVolGuard(p, dc) THEN [Hold EXCEPT !.path = "VOL_GUARD"]
        ELSE IF WantsLongTh(p, dc) /\ mtf_ok
        THEN Signal("BUY", "LONG", BuildStop("LONG", entry, atr, p.atr_stop_mult), "THRESHOLD")
        ELSE IF WantsShortTh(p, dc) /\ mtf_ok
        THEN Signal("SELL", "SHORT", BuildStop("SHORT", entry, atr, p.atr_stop_mult), "THRESHOLD")
        ELSE Hold

-----------------------------------------------------------------------------
(* Configuration read by main.py *)

\* config.py:81  START_EQUITY
START_EQUITY == 100000000

\* config.py:16  MIN_TRADE_VALUE
MIN_TRADE_VALUE == 100000

\* config.py:63  max_risk_per_trade = 0.01, in percent
MaxRiskPct == 1

\* main.py:811  DEFAULT_STOP_PCT = 0.01 (getattr default), in percent
DefaultStopPct == 1

\* config.py:57  min_vr_intracandle = 0.95
MinVrIntracandle == 950

\* main.py:237  deque(maxlen=5)
SignalBufferLen == 5

\* main.py:658-660  confirmations needed among the buffered actions
SignalConfirmCount == 3

\* config.py:26,51  allow_intracandle (default "true"); with it the candle
\* de-duplication of main.py:518-521 is never executed.
AllowIntracandle == TRUE

\* main.py:788  ALLOW_SHORT (getattr default)
AllowShort == TRUE

-----------------------------------------------------------------------------
(* trading_logic.py: Account and sizing *)

\* trading_logic.py:102-108  Account.update_equity
UpdateEquity(acc, mark_price) ==
    LET pos == acc.position
        pnl == IF pos.side # "NONE"
               THEN (mark_price - pos.entry_price) * pos.qty
                        * (IF pos.side = "LONG" THEN 1 ELSE -1)
               ELSE 0
    IN  [acc EXCEPT !.equity = acc.balance + pnl]

\* trading_logic.py:110-111  Account.can_trade
CanTrade(acc, min_notional, price) ==
    acc.balance >= Max2(min_notional, 0) /\ price > 0

PositionSizeByRisk_noAbs(equity, risk_pct, entry, stop) ==
    IF \/ stop = NoStop \/ ~IsFinitePositive(entry)
       \/ ~IsFinite(equity) \/ ~IsFinite(risk_pct) \/ ~IsFinite(stop)
    THEN 0
    ELSE LET risk_per_unit == entry * StopScale - stop
         IN  IF risk_per_unit <= 0 THEN 0
             ELSE LET qty == (Max2(equity, 0) * Max2(risk_pct, 0)) \div risk_per_unit
                  IN  IF qty <= 0 THEN 0 ELSE qty

\* trading_logic.py:118-131  position_size_by_risk; stop in hundredths,
\* risk fraction in percent, the quotient floored to an integer quantity.
\* With a non-finite stop, abs(entry - stop) is inf or nan and qty is 0.0
\* or nan, so line 129 returns 0.0.
PositionSizeByRisk(equity, risk_pct, entry, stop) ==
    IF \/ stop = NoStop \/ ~IsFinitePositive(entry)
       \/ ~IsFinite(equity) \/ ~IsFinite(risk_pct)
    THEN 0
    ELSE IF ~IsFinite(stop) THEN 0
    ELSE LET risk_per_unit == Abs(entry * StopScale - stop)
         IN  IF risk_per_unit <= 0 THEN 0
             ELSE LET qty == (Max2(equity, 0) * Max2(risk_pct, 0)) \div risk_per_unit
                  IN  IF qty <= 0 THEN 0 ELSE qty

-----------------------------------------------------------------------------
(* main.py: close helpers.  They act on m = [account, events, steps]:      *)
(* the account, the trade events emitted so far, and the steps the current *)
(* cycle has executed.                                                     *)

TradeEvent(type, pos, close_price, stop, pnl, reason) ==
    [event_type |-> type, trade_id |-> pos.trade_id, side |-> pos.side,
     qty |-> pos.qty, entry_price |-> pos.entry_price,
     close_price |-> close_price, stop_price |-> stop, pnl |-> pnl,
     reason |-> reason]

ClosePosition_noClear(m, current_price, reason) ==
    LET acc == m.account
        pos == acc.position
    IN  IF pos.side = "NONE" THEN m
        ELSE IF pos.qty <= 0 \/ pos.entry_price <= 0 THEN m
        ELSE LET pnl == IF pos.side = "LONG"
                        THEN (current_price - pos.entry_price) * pos.qty
                        ELSE (pos.entry_price - current_price) * pos.qty
                 bal == IF pos.side = "LONG"
                        THEN acc.balance + pos.qty * current_price
                        ELSE acc.balance + pnl
                 kept == [acc EXCEPT !.balance = bal]
             IN  [account |-> UpdateEquity(kept, current_price),
                  events  |-> Append(m.events,
                                TradeEvent("CLOSE", pos, current_price,
                                           pos.stop_price, pnl, reason)),
                  steps   |-> Append(m.steps, reason)]

\* main.py:351-413  _close_position
ClosePosition(m, current_price, reason) ==
    LET acc == m.account
        pos == acc.position
    IN  IF pos.side = "NONE" THEN m
        ELSE IF pos.qty <= 0 \/ pos.entry_price <= 0 THEN m
        ELSE LET pnl == IF pos.side = "LONG"
                        THEN (current_price - pos.entry_price) * pos.qty
                        ELSE (pos.entry_price - current_price) * pos.qty
                 bal == IF pos.side = "LONG"
                        THEN acc.balance + pos.qty * current_price
                        ELSE acc.balance + pnl
                 flat == [acc EXCEPT !.balance = bal, !.position = NoPosition]
             IN  [account |-> UpdateEquity(flat, current_price),
                  events  |-> Append(m.events,
                                TradeEvent("CLOSE", pos, current_price,
                                           pos.stop_price, pnl, reason)),
                  steps   |-> Append(m.steps, reason)]

\* main.py:437-439  risk_per_unit, in hundredths
RiskPerUnit(pos) ==
    IF pos.stop_price # NoStop
    THEN Abs(pos.entry_price * StopScale - pos.stop_price)
    ELSE 0

\* main.py:443-444  r_mult numerator, in hundredths
Favourable(pos, current_price) ==
    (current_price - pos.entry_price) * (IF pos.side = "LONG" THEN 1 ELSE -1) * StopScale

\* main.py:447,451  r_mult >= tp_r_level (0.7)
TpReached(pos, current_price) ==
    Favourable(pos, current_price) * 10 >= 7 * RiskPerUnit(pos)

BeReached_half(pos, current_price) ==
    Favourable(pos, current_price) * 100 >= 50 * RiskPerUnit(pos)

\* main.py:448,460  r_mult >= be_r_level (0.35)
BeReached(pos, current_price) ==
    Favourable(pos, current_price) * 100 >= 35 * RiskPerUnit(pos)

Breached_strict(pos, current_price) ==
    \/ pos.side = "LONG"  /\ current_price * StopScale < pos.stop_price
    \/ pos.side = "SHORT" /\ current_price * StopScale > pos.stop_price

\* main.py:474-477  breached
Breached(pos, current_price) ==
    \/ pos.side = "LONG"  /\ current_price * StopScale <= pos.stop_price
    \/ pos.side = "SHORT" /\ current_price * StopScale >= pos.stop_price

\* main.py:469-486  hard stop check, after the TP/BE management
StopCheck(m, current_price) ==
    LET pos == m.account.position
    IN  IF pos.stop_price = NoStop THEN m
        ELSE IF ~Breached(pos, current_price) THEN m
        ELSE ClosePosition(m, current_price, "STOP_HIT")

\* main.py:415-486  _maybe_close_position
MaybeClosePosition(m, current_price) ==
    LET pos == m.account.position
    IN  IF pos.side = "NONE" THEN m
        ELSE IF pos.qty <= 0 \/ pos.entry_price <= 0 THEN m
        ELSE IF RiskPerUnit(pos) > 0 /\ TpReached(pos, current_price)
        THEN ClosePosition(m, current_price, "TP_HIT")
        ELSE IF /\ RiskPerUnit(pos) > 0
                /\ BeReached(pos, current_price)
                /\ ~pos.breakeven_armed
        THEN StopCheck(
                [m EXCEPT !.account.position.stop_price = pos.entry_price * StopScale,
                          !.account.position.breakeven_armed = TRUE,
                          !.steps = Append(m.steps, "BE_ARMED")],
                current_price)
        ELSE StopCheck(m, current_price)

-----------------------------------------------------------------------------
(* main.py: the poll cycle *)

\* main.py:142-163  compute_regime
ComputeRegime(trend_val, adx_val, vol_ratio) ==
    IF Abs(trend_val) > 600 /\ adx_val >= DefaultParams.min_adx_for_trend /\ vol_ratio >= 1100
    THEN "HIGH"
    ELSE IF vol_ratio >= 900 THEN "NEUTRAL"
    ELSE "LOW"

\* main.py:657  signal_buffer.append(action) on a deque(maxlen=5)
BufferAppend(buf, action) ==
    IF Len(buf) < SignalBufferLen
    THEN Append(buf, action)
    ELSE Append(Tail(buf), action)

\* main.py:658,660  signal_buffer.count(action)
BufferCount(buf, action) ==
    Cardinality({i \in 1..Len(buf) : buf[i] = action})

Unconfirmed_two(buf, action) ==
    /\ action \in {"BUY", "SELL"}
    /\ BufferCount(buf, action) < 2

\* main.py:658-661  the early return on a BUY/SELL seen fewer than 3 times
Unconfirmed(buf, action) ==
    /\ action \in {"BUY", "SELL"}
    /\ BufferCount(buf, action) < SignalConfirmCount

\* main.py:651-655  VOL_EXPAND_GUARD
VolExpandGuard(candle_is_live, dec, dc) ==
    IF /\ AllowIntracandle /\ candle_is_live /\ dec.action \in {"BUY", "SELL"}
       /\ dc.vol_ratio < MinVrIntracandle /\ dc.regime # "HIGH"
    THEN [Hold EXCEPT !.path = "VOL_EXPAND_GUARD"]
    ELSE dec

ReverseSignal_anySignal(m, action, price) ==
    IF m.account.position.side # "NONE" /\ action \in {"BUY", "SELL"}
    THEN ClosePosition(m, price, "REVERSE_SIGNAL")
    ELSE m

\* main.py:765-773  reverse signal
ReverseSignal(m, action, price) ==
    LET pos == m.account.position
    IN  IF /\ pos.side # "NONE"
           /\ action \in {"BUY", "SELL"}
           /\ pos.side # (IF action = "BUY" THEN "LONG" ELSE "SHORT")
        THEN ClosePosition(m, price, "REVERSE_SIGNAL")
        ELSE m

\* main.py:800-815  stop from the strategy output, else the percentage
\* fallback stop (in hundredths)
EntryStop(dec, side, price) ==
    IF dec.has_pos /\ dec.stop_price # NoStop THEN dec.stop_price
    ELSE IF side = "LONG"
         THEN price * (StopScale - DefaultStopPct)
         ELSE price * (StopScale + DefaultStopPct)

EntryQty_noScale(acc, side, price, stop) ==
    LET qty0 == IF stop # 0
                THEN PositionSizeByRisk(acc.equity, MaxRiskPct, price, stop)
                ELSE Max2(MIN_TRADE_VALUE \div price, 0)
    IN  IF qty0 <= 0 THEN 0 ELSE qty0

\* main.py:817-840  quantity: risk sizing, then the minimum-notional rule.
\* 0 stands for "skip the trade".
EntryQty(acc, side, price, stop) ==
    LET qty0 == IF stop # 0
                THEN PositionSizeByRisk(acc.equity, MaxRiskPct, price, stop)
                ELSE Max2(MIN_TRADE_VALUE \div price, 0)
    IN  IF qty0 <= 0 THEN 0
        ELSE IF qty0 * price < MIN_TRADE_VALUE
        THEN LET need_qty == MIN_TRADE_VALUE \div price
             IN  IF side = "LONG" /\ need_qty * price > acc.balance
                 THEN 0
                 ELSE need_qty
        ELSE qty0

\* main.py:785-868  entry
Entry(m, dec, price, tid) ==
    LET action == dec.action
        side   == IF action = "BUY" THEN "LONG" ELSE "SHORT"
        execute_now == ~(~AllowIntracandle /\ action \in {"BUY", "SELL"})
    IN  IF ~(execute_now /\ action \in {"BUY", "SELL"}) THEN m
        ELSE IF action = "SELL" /\ ~AllowShort THEN m
        ELSE IF price <= 0 THEN m
        ELSE LET acc1 == UpdateEquity(m.account, price)
                 m1   == [m EXCEPT !.account = acc1]
             IN  IF ~CanTrade(acc1, MIN_TRADE_VALUE, price) THEN m1
                 ELSE LET stop == EntryStop(dec, side, price)
                          qty  == EntryQty(acc1, side, price, stop)
                          pos  == Position(side, qty, price,
                                           IF stop # 0 THEN stop ELSE NoStop, tid)
                          bal  == IF side = "LONG"
                                  THEN acc1.balance - qty * price
                                  ELSE acc1.balance
                          acc2 == [acc1 EXCEPT !.position = pos, !.balance = bal]
                      IN  IF qty <= 0 THEN m1
                          ELSE [account |-> UpdateEquity(acc2, price),
                                events  |-> Append(m.events,
                                              TradeEvent("OPEN", pos, 0, pos.stop_price, 0, "")),
                                steps   |-> Append(m.steps, "OPEN")]

EntryIfFlat_always(m, dec, price, tid) == Entry(m, dec, price, tid)

\* main.py:782-783  "only one open position at a time"
EntryIfFlat(m, dec, price, tid) ==
    IF m.account.position.side # "NONE" THEN m
    ELSE Entry(m, dec, price, tid)

\* main.py:761-868  risk / execution layer: exits, reverse close, entry
Execute(m, dec, price, tid) ==
    LET m1 == MaybeClosePosition([m EXCEPT !.steps = Append(m.steps, "EXIT_MGMT")], price)
        m2 == ReverseSignal(m1, dec.action, price)
    IN  [final |-> EntryIfFlat(m2, dec, price, tid), after_exit |-> m1.account.position]

NoCycle ==
    [decided |-> FALSE, price |-> 0, action |-> "NONE", steps |-> <<>>,
     before |-> NoPosition, after_exit |-> NoPosition]

\* main.py:497-499  no primary candles: the cycle returns at once
NoCandles ==
    /\ iteration < MaxIter
    /\ iteration' = iteration + 1
    /\ cycle' = NoCycle
    /\ UNCHANGED <<account, signal_buffer, events, trade_seq, d_in, d_out>>
    /\ UNCHANGED ioVars
    /\ UNCHANGED auxVars

\* main.py:491-882  analyze_once with primary candles; dc240 and dc60 are
\* the contexts after gate_and_weight, candle_is_live tells whether the
\* ticker gave a live price.
AnalyzeOnce(dc240, dc60, candle_is_live) ==
    LET dec   == VolExpandGuard(candle_is_live, Decide(DefaultParams, dc240, dc60), dc240)
        buf   == BufferAppend(signal_buffer, dec.action)
        price == dc240.price
        m0    == [account |-> account, events |-> events, steps |-> <<>>]
        x     == Execute(m0, dec, price, trade_seq + 1)
        m     == x.final
        opened == Len(m.steps) > 0 /\ m.steps[Len(m.steps)] = "OPEN"
    IN  /\ iteration < MaxIter
        /\ iteration' = iteration + 1
        /\ signal_buffer' = buf
        /\ IF Unconfirmed(buf, dec.action)
           THEN /\ cycle' = [decided |-> TRUE, price |-> price, action |-> dec.action,
                             steps |-> <<>>, before |-> account.position,
                             after_exit |-> account.position]
                /\ UNCHANGED <<account, events, trade_seq>>
           ELSE /\ opened => trade_seq < MaxTrades
                /\ account' = m.account
                /\ events' = m.events
                /\ trade_seq' = IF opened THEN trade_seq + 1 ELSE trade_seq
                /\ cycle' = [decided |-> TRUE, price |-> price, action |-> dec.action,
                             steps |-> m.steps, before |-> account.position,
                             after_exit |-> x.after_exit]
        /\ UNCHANGED <<d_in, d_out>>
        /\ UNCHANGED ioVars
        /\ UNCHANGED auxVars

-----------------------------------------------------------------------------
(* market_providers.py: MarketDataGateway.  A provider call has one of the *)
(* outcomes RAISE (an exception leaves the provider), EMPTY (None or an    *)
(* empty result) and DATA (a non-empty result).  Data is represented by    *)
(* the name of the provider that produced it, None by the empty string.    *)
(* The provider constructors (market_providers.py:49-58) do not fail.      *)

\* market_providers.py:359,442  providers_order
ProvidersOrder == <<"wallex", "coingecko", "coincap">>

\* market_providers.py:296-300  self._providers
KnownProviders == {"wallex", "coingecko", "coincap"}

Outcomes == {"RAISE", "EMPTY", "DATA"}

\* market_providers.py:317,328,335  provider_name.lower()
Lower(name) == IF name = "WALLEX" THEN "wallex" ELSE name

\* market_providers.py:313,416  required_provider or self.preferred_provider
ProviderName(required, preferred) == IF required # "" THEN required ELSE preferred

\* market_providers.py:274-281  MarketDataResponse; error is the kind of
\* the message and error_names the provider names the message contains;
\* raised tells that the call ended with an exception instead.
Response(data, provider, confidence, fallback_used, error, names) ==
    [data |-> data, provider |-> provider, confidence |-> confidence,
     fallback_used |-> fallback_used, error |-> error, error_names |-> names,
     raised |-> FALSE]

Confidence_flat(idx) == 10

\* market_providers.py:370,450  1.0 - (idx * 0.2), in tenths
Confidence(idx) == 10 - 2 * idx

\* one provider call and its outcome, in the order the calls are made
Contact(name, outcome) == [name |-> name, outcome |-> outcome]

\* market_providers.py:360,366  the list attempted
Attempted(contacts) == [i \in 1..Len(contacts) |-> contacts[i].name]

GatewayResult(resp, contacts) == [resp |-> resp, contacts |-> contacts]

\* market_providers.py:315-356  get_candles with a provider name
SingleCandles(provider_name, o) ==
    LET name == Lower(provider_name)
    IN  IF name \notin KnownProviders
        THEN GatewayResult(
                Response("", "none", 0, FALSE, "UNKNOWN_PROVIDER", <<provider_name>>), <<>>)
        ELSE IF o[name] = "DATA"
        THEN GatewayResult(Response(name, name, 10, FALSE, "", <<>>),
                           <<Contact(name, "DATA")>>)
        ELSE IF o[name] = "EMPTY"
        THEN GatewayResult(Response("", name, 0, FALSE, "NO_DATA", <<provider_name>>),
                           <<Contact(name, "EMPTY")>>)
        ELSE GatewayResult(Response("", name, 0, FALSE, "EXCEPTION", <<>>),
                           <<Contact(name, "RAISE")>>)

RECURSIVE ChainCandles_uncaught(_, _, _)

ChainCandles_uncaught(idx, contacts, o) ==
    IF idx >= Len(ProvidersOrder)
    THEN GatewayResult(
            Response("", "none", 0, TRUE, "ALL_FAILED", Attempted(contacts)), contacts)
    ELSE LET name == ProvidersOrder[idx + 1]
             made == Append(contacts, Contact(name, o[name]))
         IN  IF o[name] = "DATA"
             THEN GatewayResult(
                     Response(name, name, Confidence(idx), idx > 0, "", <<>>), made)
             ELSE IF o[name] = "RAISE"
             THEN GatewayResult(
                     [Response("", "", 0, FALSE, "", <<>>) EXCEPT !.raised = TRUE], made)
             ELSE ChainCandles_uncaught(idx + 1, made, o)

RECURSIVE ChainCandles(_, _, _)

\* market_providers.py:358-405  get_candles, the fallback chain from the
\* provider of index idx on
ChainCandles(idx, contacts, o) ==
    IF idx >= Len(ProvidersOrder)
    THEN GatewayResult(
            Response("", "none", 0, TRUE, "ALL_FAILED", Attempted(contacts)), contacts)
    ELSE LET name == ProvidersOrder[idx + 1]
             made == Append(contacts, Contact(name, o[name]))
         IN  IF o[name] = "DATA"
             THEN GatewayResult(
                     Response(name, name, Confidence(idx), idx > 0, "", <<>>), made)
             ELSE ChainCandles(idx + 1, made, o)

\* market_providers.py:302-405  MarketDataGateway.get_candles
GetCandles(required, preferred, o) ==
    LET provider_name == ProviderName(required, preferred)
    IN  IF provider_name # ""
        THEN SingleCandles(provider_name, o)
        ELSE ChainCandles(0, <<>>, o)

RECURSIVE ChainTicker(_, _, _)

\* market_providers.py:441-462  get_ticker, the fallback chain
ChainTicker(idx, contacts, o) ==
    IF idx >= Len(ProvidersOrder)
    THEN GatewayResult(Response("", "none", 0, TRUE, "ALL_FAILED_TICKER", <<>>), contacts)
    ELSE LET name == ProvidersOrder[idx + 1]
             made == Append(contacts, Contact(name, o[name]))
         IN  IF o[name] = "DATA"
             THEN GatewayResult(
                     Response(name, name, Confidence(idx), idx > 0, "", <<>>), made)
             ELSE ChainTicker(idx + 1, made, o)

\* market_providers.py:407-462  MarketDataGateway.get_ticker; o1 is the
\* outcome of the call to the named provider, o the outcomes in the chain
GetTicker(required, preferred, o1, o) ==
    LET provider_name == ProviderName(required, preferred)
        name == Lower(provider_name)
    IN  IF provider_name # "" /\ name \notin KnownProviders
        THEN GatewayResult(
                Response("", "none", 0, FALSE, "UNKNOWN_PROVIDER", <<provider_name>>), <<>>)
        ELSE IF provider_name # "" /\ o1 = "DATA"
        THEN GatewayResult(Response(name, name, 10, FALSE, "", <<>>),
                           <<Contact(name, "DATA")>>)
        ELSE ChainTicker(0,
                         IF provider_name # "" THEN <<Contact(name, o1)>> ELSE <<>>,
                         o)

\* market_providers.py:67-69, wallex_client.py:132-135: the Wallex ticker
\* is always the empty dict; the other providers can give every outcome
TickerOutcomes(name) == IF name = "wallex" THEN {"EMPTY"} ELSE Outcomes

NoGatewayCall ==
    [done |-> FALSE, kind |-> "", required |-> "", preferred |-> "",
     resp |-> Response("", "", 0, FALSE, "", <<>>), contacts |-> <<>>]

GatewayCall(kind, required, preferred, result) ==
    [done |-> TRUE, kind |-> kind, required |-> required, preferred |-> preferred,
     resp |-> result.resp, contacts |-> result.contacts]

-----------------------------------------------------------------------------
(* wallex_client.py: WallexClient._request.  An HTTP attempt has one of    *)
(* the outcomes OK (status below 400 with a JSON body), EXCEPTION (the     *)
(* session raised), 5XX, 429, 4XX (raise_for_status raises) and BAD_JSON   *)
(* (resp.json() raises).  Sleeps are counted in half seconds.              *)

HttpOutcomes == {"OK", "EXCEPTION", "5XX", "429", "4XX", "BAD_JSON"}

\* wallex_client.py:46  self.retries = max(retries, 0)
RetriesOf(retries) == Max2(retries, 0)

\* wallex_client.py:55-57  the call before its first attempt; attempt is
\* the loop variable, attempts counts the HTTP requests sent, waits the
\* rate_limiter.wait() calls, log the attempts with outcome and sleep
NewRequest(retries) ==
    [called |-> TRUE, retries |-> RetriesOf(retries), attempt |-> 0, attempts |-> 0,
     waits |-> 0, log |-> <<>>, result |-> "PENDING", done |-> FALSE]

NoRequest == [NewRequest(0) EXCEPT !.called = FALSE]

Attempt(attempt, outcome, sleep) ==
    [attempt |-> attempt, outcome |-> outcome, sleep |-> sleep]

\* wallex_client.py:64  sleep_s = 1.0 + attempt
Sleep429(attempt) == 2 + 2 * attempt

\* wallex_client.py:74  backoff = 0.5 * (attempt + 1)
Backoff(attempt) == attempt + 1

\* wallex_client.py:57,77  the next loop iteration, or return None after
\* the last one
Continue(st) ==
    IF st.attempt + 1 > st.retries
    THEN [st EXCEPT !.attempt = @ + 1, !.result = "NONE", !.done = TRUE]
    ELSE [st EXCEPT !.attempt = @ + 1]

RequestStep_raises(st, outcome) ==
    LET sent == [st EXCEPT !.waits = @ + 1, !.attempts = @ + 1]
        logged(sleep) ==
            [sent EXCEPT !.log = Append(@, Attempt(st.attempt, outcome, sleep))]
    IN  IF outcome = "OK"
        THEN [logged(0) EXCEPT !.result = "BODY", !.done = TRUE]
        ELSE IF outcome = "429"
        THEN Continue(logged(Sleep429(st.attempt)))
        ELSE IF st.attempt >= st.retries
        THEN [logged(0) EXCEPT !.result = "RAISED", !.done = TRUE]
        ELSE Continue(logged(Backoff(st.attempt)))

\* wallex_client.py:57-76  one iteration of the attempt loop
RequestStep(st, outcome) ==
    LET sent == [st EXCEPT !.waits = @ + 1, !.attempts = @ + 1]
        logged(sleep) ==
            [sent EXCEPT !.log = Append(@, Attempt(st.attempt, outcome, sleep))]
    IN  IF outcome = "OK"
        THEN [logged(0) EXCEPT !.result = "BODY", !.done = TRUE]
        ELSE IF outcome = "429"
        THEN Continue(logged(Sleep429(st.attempt)))
        ELSE IF st.attempt >= st.retries
        THEN [logged(0) EXCEPT !.result = "NONE", !.done = TRUE]
        ELSE Continue(logged(Backoff(st.attempt)))

-----------------------------------------------------------------------------
(* wallex_client.py: RateLimiter.  Time is counted in ticks of half the    *)
(* interval, read from a clock that never goes back.                       *)

\* wallex_client.py:22  self.interval, in ticks
Interval == 2

\* the value of time.time() when the limiter is constructed: far beyond
\* _last = 0.0 plus the interval, so that the first call does not sleep
ClockStart == Interval

NoTime == -1

Callers == 1..NumCallers

\* wallex_client.py:21-24  RateLimiter.__init__ (lock 0 = free) with the
\* callers outside wait(); prev is the value of _last that the latest
\* write replaced, writes the number of writes, ret_prev and ret_last the
\* times of the two latest returns of wait()
NewLimiter ==
    [last |-> 0, lock |-> 0, clock |-> ClockStart,
     pc |-> [t \in Callers |-> "idle"], wake |-> [t \in Callers |-> 0],
     waits |-> [t \in Callers |-> 0],
     prev |-> 0, writes |-> 0, ret_prev |-> NoTime, ret_last |-> NoTime]

LockFree_always(lock) == TRUE

\* wallex_client.py:27  threading.Lock: acquire blocks while it is held
LockFree(lock) == lock = 0

\* wallex_client.py:28-31  the time at which the sleep of the call ends
WakeTime(now, last) ==
    IF now - last < Interval THEN now + (Interval - (now - last)) ELSE now

-----------------------------------------------------------------------------
(* The outbound HTTP requests of one poll cycle: the two candle requests   *)
(* of the loop's client, then the requests of the gateway's fallback chain.*)
(* Each call is taken with a single HTTP attempt.                          *)

\* config.py:27  LIVE_POLL_SECONDS = 12, in ticks
PollTicks == 96

\* the time a request takes to be answered, in ticks
Durations == {1, 3}

\* an outbound HTTP request: who sent it, the limiter whose wait() came
\* before it (wl: the loop client's, new: one constructed for the call,
\* none: no limiter), and the time at which it was sent
OutRequest(via, limiter, time) == [via |-> via, limiter |-> limiter, time |-> time]

\* main.py:190-196  wl and its RateLimiter (_last = 0.0) before the first
\* cycle
NewOutbound ==
    [clock |-> ClockStart, wl_last |-> 0, pc |-> "candles_240", cycles |-> 0, log |-> <<>>]

\* wallex_client.py:59-60  a request of the loop's client wl: wait() on
\* its limiter (run by the loop's single thread), then the request
WlRequest(st, d, pc) ==
    LET t == WakeTime(st.clock, st.wl_last)
    IN  [st EXCEPT !.wl_last = t, !.clock = t + d, !.pc = pc,
                   !.log = Append(@, OutRequest("loop", "wl", t))]

\* market_providers.py:364-368, 49-58, 62: WallexProvider() constructs a
\* WallexClient, hence a RateLimiter with _last = 0.0, for this one call
GatewayWallexRequest(st, d, pc) ==
    LET t == WakeTime(st.clock, 0)
    IN  [st EXCEPT !.clock = t + d, !.pc = pc,
                   !.log = Append(@, OutRequest("wallex", "new", t))]

\* market_providers.py:107,179  requests.get(url, params=params, timeout=10)
DirectRequest(st, via, d, pc) ==
    [st EXCEPT !.clock = st.clock + d, !.pc = pc,
               !.log = Append(@, OutRequest(via, "none", st.clock))]

\* no call of the market-data layer in progress
IoIdle ==
    /\ gw = NoGatewayCall /\ req = NoRequest /\ rl = NewLimiter
    /\ net = NewOutbound

-----------------------------------------------------------------------------
(* Harness records of the single-call specifications *)

\* trading_logic.py:118  the arguments of one position_size_by_risk call
\* and the value it returned
Sizing(equity, risk_pct, entry, stop) ==
    [equity |-> equity, risk_pct |-> risk_pct, entry |-> entry, stop |-> stop,
     qty |-> 0, done |-> FALSE]

NoSizing == Sizing(0, 0, 0, NoStop)

\* main.py:166-171  round(float(x), 3) and its str(): x in ten-thousandths,
\* the result in thousandths, with the sign str() prints (round(-0.0004, 3)
\* is -0.0 and prints as "-0.0")
Round3(x) == [neg |-> x < 0, mag |-> (Abs(x) + 5) \div 10]

\* main.py:172  round(float(price), -4) if price else 0: the int 0 prints
\* as "0", a float as "0.0", "100000.0", ...
RoundPrice(price) ==
    IF price = 0 THEN [int |-> TRUE, v |-> 0]
    ELSE [int |-> FALSE, v |-> ((price + 5000) \div 10000) * 10000]

\* the values make_fingerprint reads: the primary channels in
\* ten-thousandths, the price, and the confirm aggregate if dc_60 exists
FpInput(agg, trend, momentum, meanrev, breakout, price, has60, agg60) ==
    [aggregate_s |-> agg, trend |-> trend, momentum |-> momentum,
     meanrev |-> meanrev, breakout |-> breakout, price |-> price,
     has60 |-> has60, aggregate_s60 |-> agg60]

\* main.py:165-176  make_fingerprint: the joined parts, as a sequence
MakeFingerprint(in) ==
    LET parts == <<Round3(in.aggregate_s), Round3(in.trend), Round3(in.momentum),
                   Round3(in.meanrev), Round3(in.breakout), RoundPrice(in.price)>>
    IN  IF in.has60 THEN Append(parts, Round3(in.aggregate_s60)) ELSE parts

\* main.py:233  last_db_fingerprint = None
NoFingerprint == <<>>

\* insert outcomes: the row was inserted, insert_trading_log returned
\* False (database_setup.py:317-318, 334-336), or an exception was raised
\* inside the try block and caught at main.py:704
DbOutcomes == {"OK", "NOT_OK", "RAISE"}

\* main.py:233, 663-705  the de-duplication state: last_db_fingerprint,
\* the fingerprint of the last cycle that reached the logging step, whether
\* that cycle attempted a write and whether a row was written, the number
\* of rows written and of cycles run
NoDedupe ==
    [last_db_fingerprint |-> NoFingerprint, fingerprint |-> NoFingerprint,
     attempted |-> FALSE, wrote |-> FALSE, logged |-> 0, rows |-> 0, cycles |-> 0]

DbLogStep_alwaysUpdates(st, fp, outcome) ==
    IF fp # st.last_db_fingerprint
    THEN [st EXCEPT !.last_db_fingerprint = fp, !.fingerprint = fp,
                    !.attempted = TRUE, !.wrote = (outcome = "OK"),
                    !.rows = IF outcome = "OK" THEN @ + 1 ELSE @]
    ELSE [st EXCEPT !.fingerprint = fp, !.attempted = FALSE, !.wrote = FALSE]

\* main.py:663-705  the DB logging block of one cycle
DbLogStep(st, fp, outcome) ==
    IF fp # st.last_db_fingerprint
    THEN IF outcome = "OK"
         THEN [st EXCEPT !.last_db_fingerprint = fp, !.fingerprint = fp,
                         !.attempted = TRUE, !.wrote = TRUE, !.rows = @ + 1]
         ELSE [st EXCEPT !.fingerprint = fp, !.attempted = TRUE, !.wrote = FALSE]
    ELSE [st EXCEPT !.fingerprint = fp, !.attempted = FALSE, !.wrote = FALSE]

\* config.py:27  LIVE_POLL_SECONDS
LIVE_POLL_SECONDS == 12

\* how a call of analyze_once ends: it runs to its end, returns early
\* (main.py:499, 520, 659, 661, 783, ...), or raises an exception
CycleOutcomes == {"COMPLETED", "RETURNED", "RAISED"}

\* main.py:888  the loop before its first iteration: pc is the position
\* of the loop (top of the while body, inside analyze_once, in time.sleep,
\* or terminated by an exception that left main), iteration the loop
\* counter (it stops counting at MaxLoopIter), outcome how the last cycle
\* ended, errors the number of exceptions logged at line 894, slept the
\* duration of the last sleep
NoMainLoop ==
    [pc |-> "top", iteration |-> 0, outcome |-> "NONE", errors |-> 0, slept |-> 0]

AfterCycle_uncaught(st, outcome) ==
    IF outcome = "RAISED"
    THEN [st EXCEPT !.outcome = outcome, !.pc = "terminated"]
    ELSE [st EXCEPT !.outcome = outcome, !.pc = "sleep"]

\* main.py:890-894  the try statement around analyze_once: an exception
\* is logged and the loop goes on to the sleep
AfterCycle(st, outcome) ==
    IF outcome = "RAISED"
    THEN [st EXCEPT !.outcome = outcome, !.pc = "sleep",
                    !.errors = Min2(@ + 1, MaxLoopIter)]
    ELSE [st EXCEPT !.outcome = outcome, !.pc = "sleep"]

NoScore == -1

\* market_providers.py:274-281  the attributes of a MarketDataResponse (a
\* dataclass: its fields and nothing else that main.py calls)
ResponseAttributes == {"data", "provider", "confidence", "fallback_used", "error"}

\* main.py:552  md.get("data"): the attribute lookup of "get" on the
\* response raises AttributeError when the object has no such attribute;
\* a mapping would give the value
CallGet(resp, attributes) ==
    IF "get" \in attributes
    THEN [raised |-> FALSE, value |-> resp.data]
    ELSE [raised |-> TRUE, value |-> ""]

\* behavior_engine.py:324-346  the dict compute_behavior_score returns:
\* the score 0..100 and the fields the whale gate reads
Scored(score, vsa, wb) == [behavior_score |-> score, details |-> Behavior(FALSE, vsa, wb)]

\* main.py:557  max(-1.0, min(1.0, (score - 50.0) / 25.0)), in thousandths
BehaviorBias(score) == Max2(-1000, Min2(1000, (score - 50) * 40))

\* main.py:544-547  the values before the behavior block
NoInjection ==
    [done |-> FALSE, failed |-> FALSE, behavior_score |-> NoScore, behavior_bias |-> 0,
     behavior_details |-> NoBehavior, scored |-> Scored(0, "NO_DATA", 0)]

\* main.py:544-562, 606-608  the behavior block on the gateway's response
\* and what it leaves for dc240; scored is what compute_behavior_score
\* returns for the response's data
BehaviorBlock(resp, attributes, scored) ==
    LET got == CallGet(resp, attributes)
    IN  IF got.raised
        THEN [NoInjection EXCEPT !.done = TRUE, !.failed = TRUE, !.scored = scored]
        ELSE IF got.value = ""
        THEN [NoInjection EXCEPT !.done = TRUE, !.scored = scored]
        ELSE [done |-> TRUE, failed |-> FALSE,
              behavior_score |-> scored.behavior_score,
              behavior_bias |-> BehaviorBias(scored.behavior_score),
              behavior_details |-> scored.details, scored |-> scored]

\* which of the persistence and notification calls of a cycle fail:
\* database_setup.insert_trade_event, database_setup.upsert_account_state
\* and tg.send
Failures(event, snapshot, telegram) ==
    [event |-> event, snapshot |-> snapshot, telegram |-> telegram]

NoFailures == Failures(FALSE, FALSE, FALSE)

LogTradeEvent_uncaught(fail) == IF fail THEN "ESCAPED" ELSE "OK"

\* main.py:333-346  _log_trade_event: the insert is inside try / except
\* Exception
LogTradeEvent(fail) == IF fail THEN "CAUGHT" ELSE "OK"

\* main.py:312-331  _persist_account_snapshot: inside try / except Exception
PersistAccountSnapshot(fail) == IF fail THEN "CAUGHT" ELSE "OK"

\* main.py:402-411, 874-882  tg.send inside try / except Exception
TelegramSend(fail) == IF fail THEN "CAUGHT" ELSE "OK"

\* main.py:387-413  the calls that follow the state change of a close, in
\* order; main.py:858-882  those that follow an open
CloseCalls(f) ==
    <<LogTradeEvent(f.event), TelegramSend(f.telegram), PersistAccountSnapshot(f.snapshot)>>

OpenCalls(f) ==
    <<LogTradeEvent(f.event), PersistAccountSnapshot(f.snapshot), TelegramSend(f.telegram)>>

\* an exception leaves the helper and with it analyze_once
Escapes(calls) == \E i \in 1..Len(calls) : calls[i] = "ESCAPED"

\* the number of failures caught and logged, up to the first that escapes
CaughtIn(calls) ==
    Cardinality({i \in 1..Len(calls) :
                    /\ calls[i] = "CAUGHT"
                    /\ \A j \in 1..i : calls[j] # "ESCAPED"})

\* main.py:761-868  the risk / execution layer with failing persistence
\* and notification calls: each close and the open change the account
\* first and make their calls afterwards; an exception that escaped would
\* end the cycle at that point
ExecuteFailing(m, dec, price, tid, f) ==
    LET m1 == MaybeClosePosition([m EXCEPT !.steps = Append(m.steps, "EXIT_MGMT")], price)
        closed1 == Len(m1.events) > Len(m.events)
        m2 == ReverseSignal(m1, dec.action, price)
        closed2 == Len(m2.events) > Len(m1.events)
        m3 == EntryIfFlat(m2, dec, price, tid)
        opened == Len(m3.events) > Len(m2.events)
        c1 == IF closed1 THEN CaughtIn(CloseCalls(f)) ELSE 0
        c2 == IF closed2 THEN CaughtIn(CloseCalls(f)) ELSE 0
        c3 == IF opened THEN CaughtIn(OpenCalls(f)) ELSE 0
    IN  IF closed1 /\ Escapes(CloseCalls(f))
        THEN [final |-> m1, aborted |-> TRUE, caught |-> c1]
        ELSE IF closed2 /\ Escapes(CloseCalls(f))
        THEN [final |-> m2, aborted |-> TRUE, caught |-> c1 + c2]
        ELSE IF opened /\ Escapes(OpenCalls(f))
        THEN [final |-> m3, aborted |-> TRUE, caught |-> c1 + c2 + c3]
        ELSE [final |-> m3, aborted |-> FALSE, caught |-> c1 + c2 + c3]

\* the calls of the last cycle: which of them failed, how many failures
\* were caught, whether an exception ended the cycle early, and the
\* account the cycle reaches when every call succeeds
NoPersist ==
    [done |-> FALSE, fails |-> NoFailures, caught |-> 0, aborted |-> FALSE,
     reference |-> [equity |-> 0, balance |-> 0, position |-> NoPosition]]

AuxIdle ==
    /\ sz = NoSizing
    /\ dedupe = NoDedupe
    /\ mainloop = NoMainLoop
    /\ inj = NoInjection
    /\ persist = NoPersist

-----------------------------------------------------------------------------
(* Inputs of the poll cycle *)

Prices == {90, 100, 104, 110}

AtrValues == {0, 5}

LoopAggregates == {-250, 0, 250}

\* dc240 as main.py:590-612 builds it: the regime comes from compute_regime
LoopContext(agg, atr, price, vr) ==
    Context(agg, 0, 0, 20, atr, price, ComputeRegime(0, 20, vr), vr, NoBehavior)

\* <<dc240, dc60, candle_is_live>>: every aggregate and price with an
\* ATR stop and a live ticker at vr = 1.0; entries without ATR (fallback
\* stop) at one price; contracting volatility (vr = 0.9) with and without a
\* live ticker.
LoopInputs ==
    {<<LoopContext(agg, 5, price, 1000), NoContext, TRUE>> :
        agg \in LoopAggregates, price \in Prices}
    \cup
    {<<LoopContext(agg, 0, 100, 1000), NoContext, TRUE>> : agg \in {-250, 250}}
    \cup
    {<<LoopContext(250, 5, 100, 900), NoContext, live>> : live \in BOOLEAN}

NoDecideIn == [dc |-> NoContext, dcc |-> NoContext, p |-> DefaultParams, done |-> FALSE]

\* main.py:229-237  module state after construction
Init ==
    /\ account = [equity |-> START_EQUITY, balance |-> START_EQUITY, position |-> NoPosition]
    /\ signal_buffer = <<>>
    /\ events = <<>>
    /\ iteration = 0
    /\ trade_seq = 0
    /\ cycle = NoCycle
    /\ d_in = NoDecideIn
    /\ d_out = Hold
    /\ IoIdle
    /\ AuxIdle

\* main.py:884-895  main: one analyze_once per loop iteration
Next ==
    \/ NoCandles
    \/ \E in \in LoopInputs : AnalyzeOnce(in[1], in[2], in[3])

Spec == Init /\ [][Next]_vars

-----------------------------------------------------------------------------
(* decide as a function of its arguments: one call on drawn arguments *)

DecideAggregates == {-250, -150, 0, 150, 250}

DecideTrends == {-500, 200, 500}

DecideBreakouts == {0, 400}

DecideAdx == {10, 20}

DecideVolRatios == {NoVr, 800, 1000}

Regimes == {"LOW", "NEUTRAL", "HIGH"}

DecideBehaviors ==
    {NoBehavior,
     Behavior(FALSE, "DISTRIBUTION", 0),
     Behavior(TRUE, "NORMAL", 0),
     Behavior(FALSE, "ABSORPTION", -500),
     Behavior(FALSE, "ABSORPTION", 500)}

DecideContexts ==
    {Context(agg, trend, bo, adx, atr, 100, regime, vr, beh) :
        agg \in DecideAggregates, trend \in DecideTrends, bo \in DecideBreakouts,
        adx \in DecideAdx, atr \in AtrValues, regime \in Regimes,
        vr \in DecideVolRatios, beh \in DecideBehaviors}

ConfirmContext(agg) == [NoContext EXCEPT !.present = TRUE, !.aggregate_s = agg]

DecideConfirms == {NoContext} \cup {ConfirmContext(agg) : agg \in {-64, -63, 64}}

DecideParams ==
    {[DefaultParams EXCEPT !.require_mtf_agreement = r, !.decision_buffer = b,
                           !.impulse_only_high = h] :
        r \in BOOLEAN, b \in {0, 40}, h \in BOOLEAN}

\* volatility ratios that move the thresholds: 0.9 (shift -0.025) and 1.4
\* (shift 0.1, clamped to 0.08), with aggregates on both sides of the
\* shifted thresholds
DecideShiftContexts ==
    {Context(agg, 200, 0, 20, 5, 100, regime, vr, NoBehavior) :
        agg \in {-200, -90, 90, 200}, regime \in Regimes, vr \in {900, 1400}}

DecideStopPrices == {-5, 0, 8, 100}

\* entry prices and ATR values for the stop: a non-positive price, a price
\* below 2 * ATR (LONG stop floored at 0), and an ordinary price
DecideStopContexts ==
    {Context(agg, trend, bo, 20, atr, price, regime, 1000, NoBehavior) :
        agg \in {-250, 250}, trend \in {-500, 500}, bo \in DecideBreakouts,
        atr \in AtrValues, price \in DecideStopPrices, regime \in {"NEUTRAL", "HIGH"}}

DecideStopParams == {[DefaultParams EXCEPT !.atr_stop_mult = m] : m \in {0, 2}}

\* the arguments of one decide call
DecideInputs ==
    [dc : DecideContexts, dcc : DecideConfirms, p : DecideParams, done : {FALSE}]
    \cup
    [dc : DecideShiftContexts, dcc : {NoContext}, p : DecideParams, done : {FALSE}]
    \cup
    [dc : DecideStopContexts, dcc : {NoContext}, p : DecideStopParams, done : {FALSE}]

InitDecide ==
    /\ account = [equity |-> START_EQUITY, balance |-> START_EQUITY, position |-> NoPosition]
    /\ signal_buffer = <<>>
    /\ events = <<>>
    /\ iteration = 0
    /\ trade_seq = 0
    /\ cycle = NoCycle
    /\ d_in \in DecideInputs
    /\ d_out = Hold
    /\ IoIdle
    /\ AuxIdle

\* main.py:648  action, trade = signal_engine.decide(dc240, dc60)
DecideCall ==
    /\ ~d_in.done
    /\ d_out' = Decide(d_in.p, d_in.dc, d_in.dcc)
    /\ d_in' = [d_in EXCEPT !.done = TRUE]
    /\ UNCHANGED loopVars
    /\ UNCHANGED ioVars
    /\ UNCHANGED auxVars

NextDecide == DecideCall

SpecDecide == InitDecide /\ [][NextDecide]_vars

-----------------------------------------------------------------------------
(* MarketDataGateway calls with drawn arguments and provider outcomes *)

\* the provider arguments: None, the three providers, an upper-case
\* spelling and an unknown name
ProviderArgs == {"", "wallex", "coingecko", "coincap", "WALLEX", "binance"}

\* web_app.py:633  gateway.get_candles, main.py:551  md_gateway.get_candles
GatewayGetCandles ==
    /\ \E required \in ProviderArgs, preferred \in ProviderArgs,
          o \in [KnownProviders -> Outcomes] :
            gw' = GatewayCall("candles", required, preferred,
                              GetCandles(required, preferred, o))
    /\ UNCHANGED loopVars
    /\ UNCHANGED decideVars
    /\ UNCHANGED <<req, rl, net>>
    /\ UNCHANGED auxVars

\* web_app.py:673  gateway.get_ticker
GatewayGetTicker ==
    /\ \E required \in ProviderArgs, preferred \in ProviderArgs,
          o \in [KnownProviders -> Outcomes] :
            /\ \A name \in KnownProviders : o[name] \in TickerOutcomes(name)
            /\ \E o1 \in TickerOutcomes(Lower(ProviderName(required, preferred))) :
                  gw' = GatewayCall("ticker", required, preferred,
                                    GetTicker(required, preferred, o1, o))
    /\ UNCHANGED loopVars
    /\ UNCHANGED decideVars
    /\ UNCHANGED <<req, rl, net>>
    /\ UNCHANGED auxVars

NextGateway ==
    \/ GatewayGetCandles
    \/ GatewayGetTicker

SpecGateway == Init /\ [][NextGateway]_vars

-----------------------------------------------------------------------------
(* One WallexClient._request call for every configured retry count *)

\* wallex_client.py:42-47  the retries argument of the constructor
RetryArgs == (-1)..MaxRetries

InitRequest ==
    /\ account = [equity |-> START_EQUITY, balance |-> START_EQUITY, position |-> NoPosition]
    /\ signal_buffer = <<>>
    /\ events = <<>>
    /\ iteration = 0
    /\ trade_seq = 0
    /\ cycle = NoCycle
    /\ d_in = NoDecideIn
    /\ d_out = Hold
    /\ gw = NoGatewayCall
    /\ rl = NewLimiter
    /\ net = NewOutbound
    /\ req \in {NewRequest(retries) : retries \in RetryArgs}
    /\ AuxIdle

\* wallex_client.py:57-76  the loop body with the outcome of its attempt
RequestAttempt ==
    /\ req.called /\ ~req.done
    /\ \E outcome \in HttpOutcomes : req' = RequestStep(req, outcome)
    /\ UNCHANGED loopVars
    /\ UNCHANGED decideVars
    /\ UNCHANGED <<gw, rl, net>>
    /\ UNCHANGED auxVars

NextRequest == RequestAttempt

SpecRequest == InitRequest /\ [][NextRequest]_vars

\* the calling thread keeps running: an iteration that can be taken is
\* taken (every sleep of the loop is finite)
FairSpecRequest == SpecRequest /\ WF_vars(NextRequest)

-----------------------------------------------------------------------------
(* Concurrent callers of one RateLimiter.wait(): each statement of wait()  *)
(* is a step of its caller, and the clock advances between any two steps.  *)

\* the rest of the program does not take part
LimiterOnly ==
    /\ UNCHANGED loopVars
    /\ UNCHANGED decideVars
    /\ UNCHANGED <<gw, req, net>>
    /\ UNCHANGED auxVars

\* wallex_client.py:27  with self._lock (acquire)
Acquire(t) ==
    /\ rl.pc[t] = "idle" /\ rl.waits[t] < MaxWaits
    /\ LockFree(rl.lock)
    /\ rl' = [rl EXCEPT !.lock = t, !.pc[t] = "locked"]
    /\ LimiterOnly

\* wallex_client.py:28-30  now, delta and the comparison with interval
ReadClock(t) ==
    /\ rl.pc[t] = "locked"
    /\ rl' = [rl EXCEPT !.wake[t] = WakeTime(rl.clock, rl.last),
                        !.pc[t] = IF rl.clock - rl.last < Interval THEN "sleep" ELSE "stamp"]
    /\ LimiterOnly

\* wallex_client.py:31  time.sleep returns once its duration has passed
Wake(t) ==
    /\ rl.pc[t] = "sleep" /\ rl.clock >= rl.wake[t]
    /\ rl' = [rl EXCEPT !.pc[t] = "stamp"]
    /\ LimiterOnly

\* wallex_client.py:32  self._last = time.time(), and the release of the
\* lock at the end of the with block
Stamp(t) ==
    /\ rl.pc[t] = "stamp"
    /\ rl' = [rl EXCEPT !.prev = rl.last, !.last = rl.clock, !.writes = @ + 1,
                        !.lock = 0, !.pc[t] = "leave"]
    /\ LimiterOnly

\* wallex_client.py:26-32  wait() returns to its caller
Return(t) ==
    /\ rl.pc[t] = "leave"
    /\ rl' = [rl EXCEPT !.ret_prev = rl.ret_last, !.ret_last = rl.clock,
                        !.waits[t] = @ + 1, !.pc[t] = "idle"]
    /\ LimiterOnly

\* time passes
Tick ==
    /\ rl.clock < MaxClock
    /\ rl' = [rl EXCEPT !.clock = @ + 1]
    /\ LimiterOnly

NextLimiter ==
    \/ \E t \in Callers : Acquire(t)
    \/ \E t \in Callers : ReadClock(t)
    \/ \E t \in Callers : Wake(t)
    \/ \E t \in Callers : Stamp(t)
    \/ \E t \in Callers : Return(t)
    \/ Tick

SpecLimiter == Init /\ [][NextLimiter]_vars

-----------------------------------------------------------------------------
(* The requests of the poll loop, cycle after cycle *)

\* the rest of the program does not take part
OutboundOnly ==
    /\ UNCHANGED loopVars
    /\ UNCHANGED decideVars
    /\ UNCHANGED <<gw, req, rl>>
    /\ UNCHANGED auxVars

\* main.py:494  wl.get_candles(SYMBOL, PRIMARY_TF, ...)
LoopCandles240 ==
    /\ net.pc = "candles_240" /\ net.cycles < MaxCycles
    /\ \E d \in Durations : net' = WlRequest(net, d, "candles_60")
    /\ OutboundOnly

\* main.py:495-499  wl.get_candles(SYMBOL, CONFIRM_TF, ...); without
\* primary candles the cycle returns, else it goes on to the gateway call
LoopCandles60 ==
    /\ net.pc = "candles_60"
    /\ \E d \in Durations, pc \in {"gateway_wallex", "poll"} :
          net' = WlRequest(net, d, pc)
    /\ OutboundOnly

\* main.py:551, market_providers.py:362-368  the chain's first provider
GatewayWallex ==
    /\ net.pc = "gateway_wallex"
    /\ \E d \in Durations, pc \in {"gateway_coingecko", "poll"} :
          net' = GatewayWallexRequest(net, d, pc)
    /\ OutboundOnly

\* market_providers.py:93-128  CoinGeckoProvider.get_candles
GatewayCoinGecko ==
    /\ net.pc = "gateway_coingecko"
    /\ \E d \in Durations, pc \in {"gateway_coincap", "poll"} :
          net' = DirectRequest(net, "coingecko", d, pc)
    /\ OutboundOnly

\* market_providers.py:165-201  CoinCapProvider.get_candles
GatewayCoinCap ==
    /\ net.pc = "gateway_coincap"
    /\ \E d \in Durations : net' = DirectRequest(net, "coincap", d, "poll")
    /\ OutboundOnly

\* main.py:895  time.sleep(cfg.LIVE_POLL_SECONDS)
Poll ==
    /\ net.pc = "poll"
    /\ net' = [net EXCEPT !.clock = @ + PollTicks, !.cycles = @ + 1, !.pc = "candles_240"]
    /\ OutboundOnly

NextOutbound ==
    \/ LoopCandles240
    \/ LoopCandles60
    \/ GatewayWallex
    \/ GatewayCoinGecko
    \/ GatewayCoinCap
    \/ Poll

SpecOutbound == Init /\ [][NextOutbound]_vars

-----------------------------------------------------------------------------
(* position_size_by_risk as a function of its arguments *)

SizingEquities == {-5, 0, 1000, START_EQUITY, PosInf, NaN}

SizingRisks == {-1, 0, 1, 2, NegInf, NaN}

SizingEntries == {-100, 0, 100, 104, PosInf, NaN}

\* stops in hundredths: None, zero, below the entries, equal to each entry,
\* above them, and non-finite values
SizingStops == {NoStop, 0, 9000, 10000, 10400, 11000, PosInf, NaN}

SizingInputs ==
    {Sizing(equity, risk_pct, entry, stop) :
        equity \in SizingEquities, risk_pct \in SizingRisks,
        entry \in SizingEntries, stop \in SizingStops}

InitSizing ==
    /\ account = [equity |-> START_EQUITY, balance |-> START_EQUITY, position |-> NoPosition]
    /\ signal_buffer = <<>>
    /\ events = <<>>
    /\ iteration = 0
    /\ trade_seq = 0
    /\ cycle = NoCycle
    /\ d_in = NoDecideIn
    /\ d_out = Hold
    /\ IoIdle
    /\ sz \in SizingInputs
    /\ dedupe = NoDedupe
    /\ mainloop = NoMainLoop
    /\ inj = NoInjection
    /\ persist = NoPersist

\* main.py:819-824  qty = position_size_by_risk(equity, risk, price, stop)
SizingCall ==
    /\ ~sz.done
    /\ sz' = [sz EXCEPT !.qty = PositionSizeByRisk(sz.equity, sz.risk_pct, sz.entry, sz.stop),
                        !.done = TRUE]
    /\ UNCHANGED loopVars
    /\ UNCHANGED decideVars
    /\ UNCHANGED ioVars
    /\ UNCHANGED <<dedupe, mainloop, inj, persist>>

NextSizing == SizingCall

SpecSizing == InitSizing /\ [][NextSizing]_vars

-----------------------------------------------------------------------------
(* The poll loop over a wider range of stop distances and start equities *)

\* config.py:81  START_EQUITY is read from the environment
StartEquities == {START_EQUITY, 500000}

TradePrices == {800, 1000}

\* ATR values: none (fallback stop), 0.2% of the price (a stop tighter than
\* 1%), 5% of the price, and half of the price or more
TradeAtrValues == {0, 2, 50, 500}

TradeInputs ==
    {<<LoopContext(agg, atr, price, 1000), NoContext, TRUE>> :
        agg \in LoopAggregates, atr \in TradeAtrValues, price \in TradePrices}

\* main.py:229  Account(equity=cfg.START_EQUITY, balance=cfg.START_EQUITY)
InitTrade ==
    /\ \E e \in StartEquities :
          account = [equity |-> e, balance |-> e, position |-> NoPosition]
    /\ signal_buffer = <<>>
    /\ events = <<>>
    /\ iteration = 0
    /\ trade_seq = 0
    /\ cycle = NoCycle
    /\ d_in = NoDecideIn
    /\ d_out = Hold
    /\ IoIdle
    /\ AuxIdle

NextTrade ==
    \/ NoCandles
    \/ \E in \in TradeInputs : AnalyzeOnce(in[1], in[2], in[3])

SpecTrade == InitTrade /\ [][NextTrade]_vars

-----------------------------------------------------------------------------
(* The DB logging step, cycle after cycle *)

\* aggregates 0.1801 and 0.1804 (both 0.18), 0.1806 (0.181), -0.0004 and
\* 0.0004 ("-0.0" and "0.0"); prices 104000 and 96000 (both 100000.0) and
\* 106000 (110000.0); with and without a confirm context
FpInputs ==
    {FpInput(agg, 2000, 1000, -1000, 3504, price, has60, 640) :
        agg \in {1801, 1804, 1806, -4, 4}, price \in {96000, 104000, 106000},
        has60 \in BOOLEAN}

InitDedupe ==
    /\ account = [equity |-> START_EQUITY, balance |-> START_EQUITY, position |-> NoPosition]
    /\ signal_buffer = <<>>
    /\ events = <<>>
    /\ iteration = 0
    /\ trade_seq = 0
    /\ cycle = NoCycle
    /\ d_in = NoDecideIn
    /\ d_out = Hold
    /\ IoIdle
    /\ AuxIdle

\* the rest of the program does not take part
DedupeOnly ==
    /\ UNCHANGED loopVars
    /\ UNCHANGED decideVars
    /\ UNCHANGED ioVars
    /\ UNCHANGED <<sz, mainloop, inj, persist>>

\* main.py:497-499, 658-661  a cycle that returns before the logging step
CycleWithoutLog ==
    /\ dedupe.cycles < MaxLogCycles
    /\ dedupe' = [dedupe EXCEPT !.cycles = @ + 1]
    /\ DedupeOnly

\* main.py:663-705  a cycle that reaches the logging step
CycleWithLog ==
    /\ dedupe.cycles < MaxLogCycles
    /\ \E in \in FpInputs, outcome \in DbOutcomes :
          dedupe' = [DbLogStep(dedupe, MakeFingerprint(in), outcome)
                        EXCEPT !.cycles = @ + 1, !.logged = @ + 1]
    /\ DedupeOnly

NextDedupe ==
    \/ CycleWithoutLog
    \/ CycleWithLog

SpecDedupe == InitDedupe /\ [][NextDedupe]_vars

-----------------------------------------------------------------------------
(* The while loop of main() *)

\* the rest of the program does not take part
MainLoopOnly ==
    /\ UNCHANGED loopVars
    /\ UNCHANGED decideVars
    /\ UNCHANGED ioVars
    /\ UNCHANGED <<sz, dedupe, inj, persist>>

\* main.py:889-892  iteration += 1; analyze_once(iteration) is entered
StartCycle ==
    /\ mainloop.pc = "top"
    /\ mainloop' = [mainloop EXCEPT !.pc = "cycle",
                                    !.iteration = Min2(@ + 1, MaxLoopIter)]
    /\ MainLoopOnly

\* main.py:892-894  analyze_once ends
EndCycle ==
    /\ mainloop.pc = "cycle"
    /\ \E outcome \in CycleOutcomes : mainloop' = AfterCycle(mainloop, outcome)
    /\ MainLoopOnly

\* main.py:895  time.sleep(cfg.LIVE_POLL_SECONDS) returns
Sleep ==
    /\ mainloop.pc = "sleep"
    /\ mainloop' = [mainloop EXCEPT !.pc = "top", !.slept = LIVE_POLL_SECONDS]
    /\ MainLoopOnly

NextMain ==
    \/ StartCycle
    \/ EndCycle
    \/ Sleep

SpecMain == Init /\ [][NextMain]_vars

\* the process keeps running: analyze_once ends (every request has a
\* timeout) and the sleep is finite
FairSpecMain == SpecMain /\ WF_vars(NextMain)

-----------------------------------------------------------------------------
(* The behavior block of a poll cycle on the gateway's response *)

ScoredResults ==
    {Scored(score, vsa, wb) :
        score \in {0, 40, 80, 100}, vsa \in {"NORMAL", "ABSORPTION", "DISTRIBUTION"},
        wb \in {-500, 500}}

\* main.py:549-562  md_gateway.get_candles(symbol, tf, limit=120) on the
\* gateway built without a preferred provider (main.py:198-203), then the
\* use of its response
BehaviorCycle ==
    /\ \E o \in [KnownProviders -> Outcomes], scored \in ScoredResults :
          LET result == GetCandles("", "", o)
          IN  /\ gw' = GatewayCall("candles", "", "", result)
              /\ inj' = BehaviorBlock(result.resp, ResponseAttributes, scored)
    /\ UNCHANGED loopVars
    /\ UNCHANGED decideVars
    /\ UNCHANGED <<req, rl, net>>
    /\ UNCHANGED <<sz, dedupe, mainloop, persist>>

NextInject == BehaviorCycle

SpecInject == Init /\ [][NextInject]_vars

-----------------------------------------------------------------------------
(* The poll loop with failing persistence and notification calls *)

PersistInputs ==
    {<<LoopContext(agg, 5, price, 1000), NoContext, TRUE>> :
        agg \in LoopAggregates, price \in {90, 100}}

\* no failure, or one kind of call failing throughout the cycle, or all
FailureCases ==
    {NoFailures, Failures(TRUE, FALSE, FALSE), Failures(FALSE, TRUE, FALSE),
     Failures(FALSE, FALSE, TRUE), Failures(TRUE, TRUE, TRUE)}

\* main.py:491-882  analyze_once with primary candles, as AnalyzeOnce, with
\* the outcome of its persistence and notification calls
AnalyzeOnceFailing(dc240, dc60, candle_is_live, f) ==
    LET dec   == VolExpandGuard(candle_is_live, Decide(DefaultParams, dc240, dc60), dc240)
        buf   == BufferAppend(signal_buffer, dec.action)
        price == dc240.price
        m0    == [account |-> account, events |-> events, steps |-> <<>>]
        x     == ExecuteFailing(m0, dec, price, trade_seq + 1, f)
        m     == x.final
        opened == Len(m.steps) > 0 /\ m.steps[Len(m.steps)] = "OPEN"
    IN  /\ iteration < MaxIter
        /\ iteration' = iteration + 1
        /\ signal_buffer' = buf
        /\ IF Unconfirmed(buf, dec.action)
           THEN /\ cycle' = [decided |-> TRUE, price |-> price, action |-> dec.action,
                             steps |-> <<>>, before |-> account.position,
                             after_exit |-> account.position]
                /\ persist' = [done |-> TRUE, fails |-> f, caught |-> 0,
                               aborted |-> FALSE, reference |-> account]
                /\ UNCHANGED <<account, events, trade_seq>>
           ELSE /\ opened => trade_seq < MaxTrades
                /\ account' = m.account
                /\ events' = m.events
                /\ trade_seq' = IF opened THEN trade_seq + 1 ELSE trade_seq
                /\ cycle' = [decided |-> TRUE, price |-> price, action |-> dec.action,
                             steps |-> m.steps, before |-> account.position,
                             after_exit |-> account.position]
                /\ persist' = [done |-> TRUE, fails |-> f, caught |-> x.caught,
                               aborted |-> x.aborted,
                               reference |-> Execute(m0, dec, price, trade_seq + 1).final.account]
        /\ UNCHANGED <<d_in, d_out>>
        /\ UNCHANGED ioVars
        /\ UNCHANGED <<sz, dedupe, mainloop, inj>>

NextPersist ==
    \E in \in PersistInputs, f \in FailureCases :
        AnalyzeOnceFailing(in[1], in[2], in[3], f)

SpecPersist == Init /\ [][NextPersist]_vars

-----------------------------------------------------------------------------
(* Properties of the position lifecycle (specification Spec) *)

Did(step) == \E i \in 1..Len(cycle.steps) : cycle.steps[i] = step

StepIndex(step) == CHOOSE i \in 1..Len(cycle.steps) : cycle.steps[i] = step

ExitManaged == cycle.decided /\ Did("EXIT_MGMT") /\ cycle.before.side # "NONE"

\* the stop recorded in the OPEN event of a position (its stop at open)
OpenStopOf(pos) ==
    LET i == CHOOSE j \in 1..Len(events) :
                 events[j].event_type = "OPEN" /\ events[j].trade_id = pos.trade_id
    IN  events[i].stop_price

\* favourable movement of the cycle's price for a position, in price units
FavOf(pos, price) ==
    IF pos.side = "LONG" THEN price - pos.entry_price ELSE pos.entry_price - price

\* C1: whenever exit management runs at a price whose favourable movement
\* is at least 0.70 times the stop distance the position was opened with,
\* the position is closed in that cycle with reason TP_HIT.
C1_TpAtOpenRisk ==
    (/\ ExitManaged
     /\ OpenStopOf(cycle.before) # NoStop
     /\ OpenStopOf(cycle.before) # cycle.before.entry_price * 100
     /\ FavOf(cycle.before, cycle.price) * 1000
            >= 7 * Abs(cycle.before.entry_price * 100 - OpenStopOf(cycle.before)))
    => Did("TP_HIT")

\* C2: in every cycle that produced a decision while a position was open,
\* exit management is applied, whatever the action, and before any reverse
\* close or entry of the cycle.
C2_ExitsEveryDecidedCycle ==
    (cycle.decided /\ cycle.before.side # "NONE")
    => (Len(cycle.steps) > 0 /\ cycle.steps[1] = "EXIT_MGMT")

\* the stop after the breakeven step of the cycle
C3_CurrentStop ==
    IF Did("BE_ARMED") THEN cycle.before.entry_price * 100 ELSE cycle.before.stop_price

C3_Breach ==
    \/ cycle.before.side = "LONG"  /\ cycle.price * 100 <= C3_CurrentStop
    \/ cycle.before.side = "SHORT" /\ cycle.price * 100 >= C3_CurrentStop

\* C3: when exit management runs on a position that has a stop and the
\* take-profit does not fire, the position is closed with STOP_HIT iff the
\* price breaches the current (possibly breakeven-moved) stop; otherwise it
\* stays open with the same side, quantity and entry price.
C3_StopHitIffBreach ==
    (ExitManaged /\ cycle.before.stop_price # NoStop /\ ~Did("TP_HIT"))
    => /\ Did("STOP_HIT") <=> C3_Breach
       /\ C3_Breach => cycle.after_exit = NoPosition
       /\ ~C3_Breach =>
            /\ cycle.after_exit.side = cycle.before.side
            /\ cycle.after_exit.qty = cycle.before.qty
            /\ cycle.after_exit.entry_price = cycle.before.entry_price
            /\ cycle.after_exit.trade_id = cycle.before.trade_id

C3_Witness ==
    /\ ExitManaged /\ ~Did("TP_HIT") /\ Did("STOP_HIT")
    /\ cycle.before.breakeven_armed
    /\ cycle.price = cycle.before.entry_price

\* R-multiple of the cycle's price against the stop the position had when
\* the cycle began: R >= n/100
C4_RAtLeast(n) ==
    FavOf(cycle.before, cycle.price) * 10000
        >= n * Abs(cycle.before.entry_price * 100 - cycle.before.stop_price)

C4_Managed ==
    /\ ExitManaged
    /\ cycle.before.stop_price # NoStop
    /\ cycle.before.stop_price # cycle.before.entry_price * 100
    /\ ~cycle.before.breakeven_armed

C4_Cycle ==
    /\ (C4_Managed /\ C4_RAtLeast(35) /\ ~C4_RAtLeast(70))
        => /\ cycle.after_exit.side = cycle.before.side
           /\ cycle.after_exit.breakeven_armed
           /\ cycle.after_exit.stop_price = cycle.before.entry_price * 100
    /\ (C4_Managed /\ ~C4_RAtLeast(35) /\ cycle.after_exit.side # "NONE")
        => /\ ~cycle.after_exit.breakeven_armed
           /\ cycle.after_exit.stop_price = cycle.before.stop_price

SamePosition ==
    /\ account.position.side # "NONE"
    /\ account'.position.side # "NONE"
    /\ account'.position.trade_id = account.position.trade_id

C4_Step ==
    /\ (SamePosition /\ account.position.breakeven_armed)
        => /\ account'.position.breakeven_armed
           /\ account'.position.stop_price = account.position.stop_price
    /\ (SamePosition /\ ~account'.position.breakeven_armed)
        => account'.position.stop_price = account.position.stop_price

\* C4: breakeven arming is one-time per position: the first exit-management
\* cycle with 0.35 <= R < 0.70 moves the stop to the entry price and sets
\* breakeven_armed; while R < 0.35 the stop is unchanged; once armed, the
\* flag stays true and the stop does not move until the position is closed.
C4_BreakevenOneTime == [](C4_Cycle) /\ [][C4_Step]_vars

C4_Witness ==
    /\ ExitManaged /\ ~Did("BE_ARMED")
    /\ cycle.before.breakeven_armed
    /\ cycle.after_exit.side # "NONE"
    /\ cycle.price > cycle.before.entry_price
    /\ cycle.before.side = "LONG"

OpenCount == Cardinality({i \in 1..Len(events) : events[i].event_type = "OPEN"})

CloseCount == Cardinality({i \in 1..Len(events) : events[i].event_type = "CLOSE"})

ClosedInCycle(c) ==
    \E i \in 1..Len(c.steps) : c.steps[i] \in {"TP_HIT", "STOP_HIT", "REVERSE_SIGNAL"}

C5_State ==
    /\ OpenCount - CloseCount = (IF account.position.side # "NONE" THEN 1 ELSE 0)
    /\ Did("OPEN") =>
          \/ cycle.before.side = "NONE"
          \/ ClosedInCycle(cycle) /\ StepIndex("OPEN") = Len(cycle.steps)

C5_Step ==
    (account.position.side # "NONE" /\ account'.position.side # "NONE"
        /\ ~ClosedInCycle(cycle'))
    => /\ account'.position.trade_id = account.position.trade_id
       /\ account'.position.side = account.position.side
       /\ account'.position.qty = account.position.qty
       /\ account'.position.entry_price = account.position.entry_price
       /\ events' = events

\* C5: at most one position is open in every reachable state; a position
\* is opened in a cycle only if the account is flat at that point (after
\* the cycle's exits and reverse close); an open position is never replaced
\* or resized by an entry.
C5_OnePosition == [](C5_State) /\ [][C5_Step]_vars

C5_Witness ==
    /\ cycle.decided /\ cycle.action = "BUY" /\ Len(cycle.steps) > 0
    /\ cycle.before.side = "LONG"
    /\ account.position.side = "LONG"
    /\ account.position.trade_id = cycle.before.trade_id

C6_Opposes ==
    \/ cycle.action = "BUY"  /\ cycle.after_exit.side = "SHORT"
    \/ cycle.action = "SELL" /\ cycle.after_exit.side = "LONG"

\* C6: when the action acted on opposes the side of a position that
\* survived exit management, the position is closed with REVERSE_SIGNAL
\* before entry is evaluated (the OPEN event of the cycle, if any, follows
\* that CLOSE event); a same-direction action or HOLD never closes it.
C6_ReverseCloseFirst ==
    (cycle.decided /\ Did("EXIT_MGMT"))
    => /\ (cycle.after_exit.side # "NONE" /\ C6_Opposes)
            => /\ Did("REVERSE_SIGNAL")
               /\ \E i \in 1..Len(events) :
                    /\ events[i].event_type = "CLOSE"
                    /\ events[i].reason = "REVERSE_SIGNAL"
                    /\ events[i].trade_id = cycle.after_exit.trade_id
                    /\ events[i].close_price = cycle.price
                    /\ Did("OPEN") =>
                         /\ i = Len(events) - 1
                         /\ events[Len(events)].event_type = "OPEN"
                         /\ StepIndex("REVERSE_SIGNAL") < StepIndex("OPEN")
                    /\ ~Did("OPEN") => i = Len(events)
       /\ ~(cycle.after_exit.side # "NONE" /\ C6_Opposes)
            => ~Did("REVERSE_SIGNAL")

C6_Witness ==
    /\ cycle.decided /\ Did("REVERSE_SIGNAL") /\ Did("OPEN")
    /\ cycle.before.side = "LONG" /\ account.position.side = "SHORT"

UnrealizedPnl(pos, price) ==
    IF pos.side = "NONE" THEN 0
    ELSE IF pos.side = "LONG" THEN (price - pos.entry_price) * pos.qty
    ELSE (pos.entry_price - price) * pos.qty

\* C7: at the end of every cycle that obtained a price, equity equals
\* balance plus the unrealized P&L of the open position marked at that
\* cycle's price (balance alone when flat).
C7_EquityMarkedEachCycle ==
    cycle.decided
    => account.equity = account.balance + UnrealizedPnl(account.position, cycle.price)

-----------------------------------------------------------------------------
(* Properties of decide (specification SpecDecide) *)

\* C8: with require_mtf_agreement true and no confirm context, decide
\* returns the action it returns for the same primary context with
\* require_mtf_agreement false; aggregate 0.25 against s_buy 0.18 with
\* buffer 0 and vr 1.0 gives BUY.
C8_MissingConfirmNeverVetoes ==
    (d_in.done /\ d_in.p.require_mtf_agreement /\ ~d_in.dcc.present)
    => /\ d_out.action =
            Decide([d_in.p EXCEPT !.require_mtf_agreement = FALSE], d_in.dc, d_in.dcc).action
       /\ (/\ d_in.dc.aggregate_s = 250 /\ d_in.dc.vol_ratio = 1000
           /\ d_in.dc.regime = "NEUTRAL" /\ d_in.p.decision_buffer = 0
           /\ ~d_in.dc.behavior_details.present)
            => d_out.action = "BUY"

C8_Witness ==
    /\ d_in.done /\ d_in.p.require_mtf_agreement /\ ~d_in.dcc.present
    /\ d_in.dc.aggregate_s = 250 /\ d_in.dc.vol_ratio = 1000
    /\ d_in.dc.regime = "NEUTRAL" /\ d_in.p.decision_buffer = 0
    /\ d_out.action = "BUY" /\ d_out.path = "THRESHOLD"

\* bar = max(2*buffer, 0.35*mtf_confirm_bar, 0.05), in millionths
C9_Bar ==
    LET a == 2000 * d_in.p.decision_buffer
        b == 350 * d_in.p.mtf_confirm_bar
        m == IF a >= b THEN a ELSE b
    IN  IF m >= 50000 THEN m ELSE 50000

C9_StronglyOpposes ==
    /\ d_in.dcc.present
    /\ \/ d_in.dc.aggregate_s > 0 /\ d_in.dcc.aggregate_s * 1000 < -C9_Bar
       \/ d_in.dc.aggregate_s < 0 /\ d_in.dcc.aggregate_s * 1000 > C9_Bar

\* C9: with require_mtf_agreement true, a confirm aggregate beyond the bar
\* against the primary aggregate's sign makes decide return HOLD with no
\* position on every path; a confirm aggregate not beyond the bar leaves
\* the result what it is without a confirm context.
C9_StrongOppositionVetoes ==
    (d_in.done /\ d_in.p.require_mtf_agreement /\ d_in.dcc.present)
    => /\ C9_StronglyOpposes => (d_out.action = "HOLD" /\ ~d_out.has_pos)
       /\ ~C9_StronglyOpposes => d_out = Decide(d_in.p, d_in.dc, NoContext)

FastPathShape ==
    /\ d_in.dc.regime = "HIGH"
    /\ (d_in.dc.trend >= 450 \/ d_in.dc.trend <= -450)
    /\ d_in.dc.breakout >= 350
    /\ d_in.dc.adx >= d_in.p.min_adx_for_trend
    /\ d_in.dc.vol_ratio = 1000

C9_Witness ==
    /\ d_in.done /\ d_in.p.require_mtf_agreement /\ C9_StronglyOpposes
    /\ FastPathShape /\ ~d_in.dc.behavior_details.present
    /\ d_out.action = "HOLD"

C10_BearishWhale ==
    LET b == d_in.dc.behavior_details
    IN  /\ b.present
        /\ \/ b.supply_overcoming_demand
           \/ b.vsa_signal = "DISTRIBUTION"
           \/ b.vsa_signal = "ABSORPTION" /\ b.whale_bias < -300

C10_BullishWhale ==
    LET b == d_in.dc.behavior_details
    IN  b.present /\ b.vsa_signal = "ABSORPTION" /\ b.whale_bias > 300

\* C10: the whale gate comes before every entry path: decide returns HOLD
\* with no position, whatever the fast-path, volatility-guard and threshold
\* conditions, when trend and aggregate are bullish (trend > 0.3 and
\* aggregate > 0, the code's is_bullish_trend) and the behaviour details
\* show supply_overcoming_demand, DISTRIBUTION, or ABSORPTION with whale
\* bias < -0.3; and when they are bearish (trend < -0.3, aggregate < 0) and
\* the details show ABSORPTION with whale bias > 0.3.
C10_WhaleGateFirst ==
    d_in.done
    => /\ (d_in.dc.trend > 300 /\ d_in.dc.aggregate_s > 0 /\ C10_BearishWhale)
            => (d_out.action = "HOLD" /\ ~d_out.has_pos)
       /\ (d_in.dc.trend < -300 /\ d_in.dc.aggregate_s < 0 /\ C10_BullishWhale)
            => (d_out.action = "HOLD" /\ ~d_out.has_pos)

C10_Witness ==
    /\ d_in.done /\ FastPathShape /\ d_in.dc.trend > 300 /\ d_in.dc.aggregate_s > 0
    /\ C10_BearishWhale /\ ~C9_StronglyOpposes
    /\ d_out.action = "HOLD" /\ d_out.path = "WHALE_GATE"

\* the volatility ratio decide works with: the context's, else the regime's
C11_Vr ==
    IF d_in.dc.vol_ratio # NoVr THEN d_in.dc.vol_ratio
    ELSE IF d_in.dc.regime = "LOW" THEN 850
    ELSE IF d_in.dc.regime = "HIGH" THEN 1150
    ELSE 1000

C11_GuardActive == C11_Vr < d_in.p.min_vr_trade

C11_GateHolds ==
    \/ d_in.dc.trend > 300 /\ d_in.dc.aggregate_s > 0 /\ C10_BearishWhale
    \/ d_in.dc.trend < -300 /\ d_in.dc.aggregate_s < 0 /\ C10_BullishWhale

C11_MtfVetoes == d_in.p.require_mtf_agreement /\ C9_StronglyOpposes

\* the impulse conditions of the fast path as the specification states them
C11_Impulse ==
    /\ (d_in.dc.trend >= 450 \/ d_in.dc.trend <= -450)
    /\ (d_in.dc.breakout >= 350 \/ d_in.dc.breakout <= -350)
    /\ d_in.dc.adx >= d_in.p.min_adx_for_trend
    /\ ~C11_MtfVetoes
    /\ d_in.p.impulse_only_high => d_in.dc.regime = "HIGH"

\* C11: with the volatility ratio below min_vr_trade (and the whale gate
\* not holding, the price positive) decide never enters through the
\* threshold comparison: it returns HOLD unless the impulse conditions of
\* the fast path are met, and with them met in a HIGH regime it still
\* returns BUY or SELL.
C11_GuardSparesFastPath ==
    (d_in.done /\ C11_GuardActive /\ ~C11_GateHolds /\ d_in.dc.price > 0)
    => /\ d_out.path # "THRESHOLD"
       /\ ~C11_Impulse => d_out.action = "HOLD"
       /\ (C11_Impulse /\ d_in.dc.regime = "HIGH") => d_out.action \in {"BUY", "SELL"}

\* C12: with the whale gate not holding (the price positive and the
\* volatility ratio not below min_vr_trade), decide takes the fast path
\* exactly when |trend| >= 0.45, |breakout| >= 0.35, ADX >=
\* min_adx_for_trend, MTF is not vetoing and the regime is HIGH if
\* impulse_only_high is set (any regime if it is not); the fast path gives
\* BUY for trend > 0 and SELL for trend < 0, whatever the aggregate.
C12_FastPathIffImpulse ==
    (d_in.done /\ ~C11_GateHolds /\ d_in.dc.price > 0 /\ ~C11_GuardActive)
    => /\ (d_out.path = "FAST") <=> C11_Impulse
       /\ C11_Impulse => d_out.action = (IF d_in.dc.trend > 0 THEN "BUY" ELSE "SELL")

\* the fast path as decide takes it
C13_FastTaken ==
    /\ d_in.dc.regime = "HIGH"
    /\ (d_in.dc.trend >= 450 \/ d_in.dc.trend <= -450)
    /\ (d_in.dc.breakout >= 350 \/ d_in.dc.breakout <= -350)
    /\ d_in.dc.adx >= d_in.p.min_adx_for_trend
    /\ ~C11_MtfVetoes
    /\ ~C11_GuardActive
    /\ d_in.dc.price > 0

C13_OnThresholdPath ==
    d_in.done /\ ~C11_GateHolds /\ ~C13_FastTaken /\ ~C11_GuardActive

\* shift = clamp((vr - 1) * vr_adapt_k, -vr_adapt_clamp, +vr_adapt_clamp),
\* in millionths
C13_Shift ==
    LET raw   == (C11_Vr - 1000) * d_in.p.vr_adapt_k
        bound == d_in.p.vr_adapt_clamp * 1000
    IN  IF raw > bound THEN bound ELSE IF raw < -bound THEN -bound ELSE raw

C13_Buf == IF d_in.p.decision_buffer > 0 THEN d_in.p.decision_buffer ELSE 0

C13_Action(long_ok, short_ok) ==
    IF long_ok /\ ~C11_MtfVetoes THEN "BUY"
    ELSE IF short_ok /\ ~C11_MtfVetoes THEN "SELL"
    ELSE "HOLD"

\* C13 as stated: on the threshold path the buy threshold is
\* s_buy - max(buffer, 0) - shift and the sell threshold is
\* s_sell - max(buffer, 0) - shift in every regime and for every
\* regime_scale value; BUY iff aggregate >= buy threshold and MTF is not
\* vetoing, otherwise SELL iff aggregate <= -sell threshold and MTF is not
\* vetoing, otherwise HOLD.
C13_ThresholdsUnscaled ==
    C13_OnThresholdPath
    => d_out.action =
         C13_Action(d_in.dc.aggregate_s * 1000
                        >= (d_in.p.s_buy - C13_Buf) * 1000 - C13_Shift,
                    d_in.dc.aggregate_s * 1000
                        <= -((d_in.p.s_sell - C13_Buf) * 1000 - C13_Shift))

\* C13 amended: the buffered base thresholds are divided by the
\* regime_scale value of the primary regime before the shift is
\* subtracted: buy threshold = (s_buy - max(buffer, 0)) / regime_scale
\* - shift, sell threshold likewise; BUY iff aggregate >= buy threshold and
\* MTF is not vetoing, otherwise SELL iff aggregate <= -sell threshold and
\* MTF is not vetoing, otherwise HOLD.
C13_ThresholdsRegimeScaled ==
    C13_OnThresholdPath
    => LET scale == d_in.p.regime_scale[d_in.dc.regime]
       IN  d_out.action =
             C13_Action((d_in.dc.aggregate_s * 1000 + C13_Shift) * scale
                            >= (d_in.p.s_buy - C13_Buf) * 10000,
                        (C13_Shift - d_in.dc.aggregate_s * 1000) * scale
                            >= (d_in.p.s_sell - C13_Buf) * 10000)

C13_Witness ==
    /\ C13_OnThresholdPath
    /\ d_in.dc.regime = "HIGH" /\ d_in.dc.aggregate_s = 150 /\ d_in.dc.vol_ratio = 1000
    /\ d_in.p.decision_buffer = 0
    /\ d_out.action = "BUY"

-----------------------------------------------------------------------------
(* Properties of the market-data gateway (specification SpecGateway) *)

C15_Chain == <<"wallex", "coingecko", "coincap">>

\* C15: with no required or preferred provider, get_candles calls wallex,
\* coingecko, coincap in this order; a provider is called only after every
\* earlier one raised or returned nothing, a failure always advances to
\* the next provider, none is called after the first success, and the
\* response of a success at index i carries that provider's name and data
\* with confidence 1.0 - 0.2 * i and fallback_used = (i > 0).
C15_ChainOrder ==
    (gw.done /\ gw.kind = "candles" /\ gw.required = "" /\ gw.preferred = "")
    => LET n == Len(gw.contacts)
       IN  /\ n \in 1..3
           /\ \A i \in 1..n : gw.contacts[i].name = C15_Chain[i]
           /\ \A i \in 1..(n - 1) : gw.contacts[i].outcome \in {"RAISE", "EMPTY"}
           /\ gw.contacts[n].outcome # "DATA" => n = 3
           /\ gw.contacts[n].outcome = "DATA"
                => /\ gw.resp.provider = C15_Chain[n]
                   /\ gw.resp.data = C15_Chain[n]
                   /\ gw.resp.confidence = 10 - 2 * (n - 1)
                   /\ gw.resp.fallback_used = (n - 1 > 0)

C15_Witness ==
    /\ gw.done /\ gw.kind = "candles" /\ gw.required = "" /\ gw.preferred = ""
    /\ Len(gw.contacts) = 3
    /\ gw.contacts[1].outcome = "RAISE" /\ gw.contacts[2].outcome = "EMPTY"
    /\ gw.contacts[3].outcome = "DATA"
    /\ gw.resp.provider = "coincap" /\ gw.resp.confidence = 6 /\ gw.resp.fallback_used

C16_Required == IF gw.required = "WALLEX" THEN "wallex" ELSE gw.required

\* C16: when a provider is required, get_candles and get_ticker call at
\* most that one provider, and the response names no other provider and
\* carries no other provider's data.
C16_RequiredOnly ==
    (gw.done /\ gw.required # "")
    => /\ Len(gw.contacts) <= 1
       /\ \A i \in 1..Len(gw.contacts) : gw.contacts[i].name = C16_Required
       /\ gw.resp.provider \in {C16_Required, "none"}
       /\ gw.resp.data \in {"", C16_Required}

C17_AllFailed ==
    /\ gw.kind = "candles" /\ gw.required = "" /\ gw.preferred = ""
    /\ \A i \in 1..Len(gw.contacts) : gw.contacts[i].outcome # "DATA"

\* C17: a gateway call never ends with an exception; when every provider
\* of the chain fails, get_candles returns empty data, provider "none",
\* confidence 0, fallback_used true and an error naming every provider
\* that was called (all three); data is non-empty iff confidence > 0 and
\* there is no error.
C17_NeverRaises ==
    gw.done
    => /\ ~gw.resp.raised
       /\ (gw.resp.data # "") <=> (gw.resp.confidence > 0 /\ gw.resp.error = "")
       /\ C17_AllFailed
            => /\ gw.resp.data = "" /\ gw.resp.provider = "none"
               /\ gw.resp.confidence = 0 /\ gw.resp.fallback_used
               /\ gw.resp.error = "ALL_FAILED"
               /\ gw.resp.error_names = <<"wallex", "coingecko", "coincap">>
               /\ Len(gw.contacts) = 3

C17_Witness ==
    /\ gw.done /\ C17_AllFailed /\ Len(gw.contacts) = 3
    /\ gw.contacts[1].outcome = "RAISE" /\ gw.contacts[2].outcome = "EMPTY"
    /\ gw.contacts[3].outcome = "RAISE"
    /\ gw.resp.provider = "none" /\ gw.resp.error = "ALL_FAILED"

-----------------------------------------------------------------------------
(* Properties of the HTTP client (specification FairSpecRequest) *)

C18_Safe ==
    req.called
    => /\ req.attempts <= req.retries + 1
       /\ req.attempts = Len(req.log)
       /\ \A i \in 1..Len(req.log) :
            /\ req.log[i].outcome = "OK"
                 => (i = Len(req.log) /\ req.done /\ req.result = "BODY")
            /\ (req.log[i].outcome # "OK" /\ i <= req.retries)
                 => (req.log[i].sleep > 0 /\ (i < Len(req.log) \/ ~req.done))
       /\ ~req.done => req.result = "PENDING"
       /\ req.done
            => /\ req.result \in {"BODY", "NONE"}
               /\ req.result = "BODY" => req.log[Len(req.log)].outcome = "OK"
               /\ req.result = "NONE" => Len(req.log) = req.retries + 1

\* C18: _request sends at most retries + 1 HTTP requests and returns: an
\* attempt that succeeds is the last one and returns the body; a failed
\* attempt (exception, 5xx, 429, 4xx, unparsable body) with attempts
\* remaining is followed by a sleep and another attempt; with the attempts
\* exhausted the call returns None; it never ends with an exception.
C18_Terminates == [](C18_Safe) /\ <>(req.done)

C18_Witness ==
    /\ req.called /\ req.done /\ req.result = "NONE"
    /\ req.retries = 2 /\ Len(req.log) = 3
    /\ req.log[1].outcome = "5XX" /\ req.log[2].outcome = "EXCEPTION"
    /\ req.log[3].outcome = "429"

-----------------------------------------------------------------------------
(* Properties of the rate limiter (specification SpecLimiter) *)

\* every caller that is between the acquire and the release of the lock
\* (where _last is read and written) holds the lock
C19_InsideMutex ==
    \A t \in DOMAIN rl.pc : rl.pc[t] \in {"locked", "sleep", "stamp"} => rl.lock = t

-----------------------------------------------------------------------------
(* Properties of the outbound requests (specification SpecOutbound) *)

\* C20: every outbound market-data request of the loop and of the gateway
\* providers is sent after a wait() on the one limiter of the loop's
\* client, and no two requests are closer together than the interval
\* (2 ticks).
C20_OneSharedTimer ==
    /\ \A i \in 1..Len(net.log) : net.log[i].limiter = "wl"
    /\ \A i, j \in 1..Len(net.log) :
          i < j => net.log[j].time - net.log[i].time >= 2

-----------------------------------------------------------------------------
(* Properties of the sizing function (specification SpecSizing) *)

C21_Finite(x) == x \notin {PosInf, NegInf, NaN}

\* the arguments for which (equity * risk) / |entry - stop| is defined
C21_Regular ==
    /\ sz.stop # NoStop
    /\ C21_Finite(sz.equity) /\ C21_Finite(sz.risk_pct)
    /\ C21_Finite(sz.entry) /\ C21_Finite(sz.stop)
    /\ sz.equity > 0 /\ sz.risk_pct > 0 /\ sz.entry > 0
    /\ sz.stop # sz.entry * StopScale

\* the arguments for which the result is 0
C21_Degenerate ==
    \/ sz.stop = NoStop
    \/ ~C21_Finite(sz.equity) \/ sz.equity <= 0
    \/ ~C21_Finite(sz.risk_pct) \/ sz.risk_pct <= 0
    \/ ~C21_Finite(sz.entry) \/ sz.entry <= 0
    \/ sz.stop = sz.entry * StopScale

\* C21: position_size_by_risk returns (equity * risk) / |entry - stop| for
\* finite positive equity, risk and entry and a stop different from the
\* entry; it returns 0 when the stop is None, when the stop equals the
\* entry, when equity or risk is not positive or not finite, and when the
\* entry is not a finite positive number; the result is never negative.
C21_SizeByRisk ==
    sz.done =>
        /\ C21_Regular =>
              LET dist == IF sz.entry * StopScale >= sz.stop
                          THEN sz.entry * StopScale - sz.stop
                          ELSE sz.stop - sz.entry * StopScale
              IN  sz.qty = (sz.equity * sz.risk_pct) \div dist
        /\ C21_Degenerate => sz.qty = 0
        /\ sz.qty >= 0

\* the example of the claim (100000000, 0.01, 100, 90) has been sized
C21_Witness ==
    /\ sz.done
    /\ sz.equity = 100000000 /\ sz.risk_pct = 1 /\ sz.entry = 100 /\ sz.stop = 9000
    /\ sz.qty = 100000

-----------------------------------------------------------------------------
(* Properties of entries and of the balance (specification SpecTrade) *)

\* the last cycle opened the position the account holds
JustOpened ==
    /\ cycle.decided
    /\ Len(cycle.steps) > 0
    /\ cycle.steps[Len(cycle.steps)] = "OPEN"

\* the equity the entry was sized on: the balance before the debit
EquityAtEntry ==
    IF account.position.side = "LONG"
    THEN account.balance + account.position.qty * account.position.entry_price
    ELSE account.balance

\* the quantity of risk sizing for the position just opened (its stop is
\* not None)
C22_RiskQty ==
    LET pos  == account.position
        dist == IF pos.entry_price * StopScale >= pos.stop_price
                THEN pos.entry_price * StopScale - pos.stop_price
                ELSE pos.stop_price - pos.entry_price * StopScale
    IN  (EquityAtEntry * MaxRiskPct) \div dist

C22_Scaled ==
    /\ JustOpened
    /\ account.position.stop_price # NoStop
    /\ C22_RiskQty * account.position.entry_price < MIN_TRADE_VALUE

\* C22: on entry, LONG or SHORT, a notional of risk sizing below the
\* minimum trade value is raised to the minimum (qty = min / price), or the
\* entry is declined; every position opened has notional >= the minimum
\* trade value, and a risk-sized quantity that meets it is kept.
C22_MinNotional ==
    JustOpened =>
        LET pos == account.position
        IN  /\ pos.qty * pos.entry_price >= MIN_TRADE_VALUE
            /\ C22_Scaled => pos.qty * pos.entry_price = MIN_TRADE_VALUE
            /\ (pos.stop_price # NoStop /\ ~C22_Scaled) => pos.qty = C22_RiskQty

\* a LONG whose risk-sized notional was below the minimum has been opened
\* with the minimum notional
C22_Witness ==
    /\ C22_Scaled
    /\ account.position.side = "LONG"
    /\ account.position.qty * account.position.entry_price = MIN_TRADE_VALUE

\* C27: every position the loop opens carries a stop price (the strategy's
\* stop, else the percentage fallback stop): no position is ever open
\* without a stop.
C27_EveryPositionHasStop ==
    account.position.side # "NONE" => account.position.stop_price # NoStop

\* C29: account.balance is never negative: opening a LONG never debits a
\* notional larger than the available balance, and no sequence of opens and
\* closes drives the balance below zero.
C29_BalanceNeverNegative == account.balance >= 0

-----------------------------------------------------------------------------
(* Properties of the signal confirmation and of the trade events           *)
(* (specification Spec)                                                    *)

\* occurrences of an action among the buffered decided actions
C28_Count(buf, a) == Cardinality({i \in 1..Len(buf) : buf[i] = a})

\* the last five elements of a sequence
C28_LastFive(s) == IF Len(s) <= 5 THEN s ELSE SubSeq(s, Len(s) - 4, Len(s))

C28_State ==
    /\ Len(signal_buffer) <= 5
    /\ cycle.decided =>
          /\ Len(signal_buffer) > 0
          /\ signal_buffer[Len(signal_buffer)] = cycle.action
    /\ (/\ cycle.decided
        /\ cycle.action \in {"BUY", "SELL"}
        /\ (Did("OPEN") \/ Did("REVERSE_SIGNAL")))
       => C28_Count(signal_buffer, cycle.action) >= 3

C28_Step ==
    /\ (cycle'.decided /\ iteration' # iteration)
       => signal_buffer' = C28_LastFive(Append(signal_buffer, cycle'.action))
    /\ (/\ cycle'.decided /\ iteration' # iteration
        /\ cycle'.action \in {"BUY", "SELL"}
        /\ C28_Count(signal_buffer', cycle'.action) < 3)
       => /\ account' = account
          /\ events' = events

\* C28: a BUY (SELL) decision leads to a reverse-signal close or to an
\* entry only in a cycle where at least 3 of the last 5 decided actions,
\* the current one included, are BUY (SELL); a cycle whose BUY/SELL is not
\* confirmed that way opens no position and closes none.
C28_ThreeOfFive == [](C28_State) /\ [][C28_Step]_vars

\* the third BUY among five buffered actions closes a SHORT by reverse
\* signal and opens a LONG
C28_Witness ==
    /\ cycle.decided /\ cycle.action = "BUY"
    /\ Did("REVERSE_SIGNAL") /\ Did("OPEN")
    /\ Len(signal_buffer) = 5
    /\ C28_Count(signal_buffer, "BUY") = 3

C30_Closes == {i \in 1..Len(events) : events[i].event_type = "CLOSE"}

\* C30: the trade events strictly alternate OPEN, CLOSE, OPEN, ...; every
\* CLOSE carries the trade_id, side, qty and entry price of the OPEN just
\* before it, and no trade_id is closed more than once.
C30_EventsAlternate ==
    /\ \A i \in 1..Len(events) :
          events[i].event_type = (IF i % 2 = 1 THEN "OPEN" ELSE "CLOSE")
    /\ \A i \in C30_Closes :
          /\ i > 1
          /\ events[i].trade_id = events[i - 1].trade_id
          /\ events[i].side = events[i - 1].side
          /\ events[i].qty = events[i - 1].qty
          /\ events[i].entry_price = events[i - 1].entry_price
    /\ \A i \in C30_Closes : \A j \in C30_Closes :
          i # j => events[i].trade_id # events[j].trade_id

\* two trades have been opened and closed, one after the other
C30_Witness ==
    /\ Len(events) = 4
    /\ events[4].event_type = "CLOSE"
    /\ events[2].trade_id # events[4].trade_id

-----------------------------------------------------------------------------
(* Properties of the DB logging step (specification SpecDedupe) *)

\* a cycle reaches the logging step in this transition
C23_Logs == dedupe'.logged = dedupe.logged + 1

C23_Step ==
    /\ (C23_Logs /\ dedupe.wrote /\ dedupe'.fingerprint = dedupe.fingerprint)
       => /\ ~dedupe'.attempted
          /\ dedupe'.rows = dedupe.rows
    /\ (/\ C23_Logs /\ dedupe.attempted /\ ~dedupe.wrote
        /\ dedupe'.fingerprint = dedupe.fingerprint)
       => dedupe'.attempted
    /\ (C23_Logs /\ dedupe.attempted /\ ~dedupe.wrote)
       => dedupe'.last_db_fingerprint \in {dedupe.last_db_fingerprint, dedupe'.fingerprint}
    /\ ~C23_Logs => dedupe'.last_db_fingerprint = dedupe.last_db_fingerprint

\* C23: after a decision record with fingerprint f has been written, the
\* next cycle that reaches the logging step with the same fingerprint f
\* writes no second record; a failed write leaves the last-seen fingerprint
\* as it was, so the record is attempted again in the following cycle.
C23_DedupeByFingerprint ==
    /\ [](dedupe.attempted /\ ~dedupe.wrote
            => dedupe.last_db_fingerprint # dedupe.fingerprint)
    /\ [][C23_Step]_vars

\* a write has failed, has been attempted again with the same fingerprint
\* and has succeeded, and the cycle after it, same fingerprint, wrote nothing
C23_Witness ==
    /\ dedupe.logged = 3 /\ dedupe.rows = 1
    /\ ~dedupe.attempted
    /\ dedupe.last_db_fingerprint = dedupe.fingerprint

-----------------------------------------------------------------------------
(* Properties of the main loop (specification FairSpecMain) *)

C24_Step ==
    /\ mainloop.pc = "cycle" => mainloop'.pc = "sleep"
    /\ mainloop.pc = "sleep" =>
          mainloop'.pc = "top" /\ mainloop'.slept = LIVE_POLL_SECONDS
    /\ mainloop.pc = "top" => mainloop'.pc = "cycle"

\* C24: an exception raised inside a poll cycle never terminates the loop:
\* after every cycle, completed, returned early or raised, the loop sleeps
\* the poll interval and then starts the next cycle, so cycles keep being
\* started forever.
C24_LoopNeverStops ==
    /\ [](mainloop.pc # "terminated")
    /\ [][C24_Step]_vars
    /\ []<>(mainloop.pc = "cycle")
    /\ []<>(mainloop.pc = "sleep")

\* a cycle has been started after one that raised
C24_Witness ==
    /\ mainloop.pc = "cycle"
    /\ mainloop.outcome = "RAISED"
    /\ mainloop.errors >= 1
    /\ mainloop.slept = LIVE_POLL_SECONDS

-----------------------------------------------------------------------------
(* Properties of the behavior block (specification SpecInject) *)

\* C26: in every cycle in which the gateway returns a response with
\* non-empty candle data, the result of compute_behavior_score on that data
\* populates the primary context (behavior_score, behavior_details and the
\* bias derived from the score) before gate_and_weight and decide run.
C26_BehaviorInjected ==
    (inj.done /\ gw.done /\ gw.resp.data # "")
    => /\ inj.behavior_score = inj.scored.behavior_score
       /\ inj.behavior_details = inj.scored.details
       /\ inj.behavior_details.present
       /\ inj.behavior_bias * 25 = Max2(-25000, Min2(25000, (inj.scored.behavior_score - 50) * 1000))

-----------------------------------------------------------------------------
(* Properties of the persistence and notification calls                    *)
(* (specification SpecPersist)                                             *)

C25_Closed == Did("TP_HIT") \/ Did("STOP_HIT") \/ Did("REVERSE_SIGNAL")

C25_SomeFailure == persist.fails.event \/ persist.fails.snapshot \/ persist.fails.telegram

\* C25: a failure of the trade-event insert, of the account snapshot or of
\* the Telegram send during an open or a close is caught and changes
\* nothing: the account (balance, equity, position) is the one reached when
\* the calls succeed, and the cycle is not cut short.
C25_FailuresChangeNothing ==
    persist.done =>
        /\ account = persist.reference
        /\ ~persist.aborted
        /\ (Did("REVERSE_SIGNAL") /\ cycle.action \in {"BUY", "SELL"}) => Did("OPEN")

\* a cycle whose trade-event insert, snapshot and Telegram send all failed
\* has closed a position by reverse signal and opened the opposite one
C25_Witness ==
    /\ persist.done
    /\ persist.fails.event /\ persist.fails.snapshot /\ persist.fails.telegram
    /\ Did("REVERSE_SIGNAL") /\ Did("OPEN")
    /\ persist.caught = 6
    /\ account.position.side # "NONE"

====
